---- MODULE Spec2Model ----
(***************************************************************************)
(* A model of the GoAWK tree-walking interpreter (interp/interp.go).      *)
(*                                                                         *)
(* Strings are sequences of one-character strings, so that splitting and  *)
(* joining a record are computed character by character.  Numbers that    *)
(* the interpreter converts with int(v.num()) are carried in tenths, so   *)
(* that the truncation is computed.                                        *)
(*                                                                         *)
(* The module holds several specifications, one per part of the           *)
(* interpreter; each leaves the variables of the other parts unchanged.   *)
(*   SpecField  the record/field engine (setField, getField, NF, FS, OFS)  *)
(*   SpecArray  arrays: in, reference, assignment, delete, for (k in a)    *)
(*   SpecRun    ExecProgram: BEGIN blocks, the record loop, END blocks      *)
(*   SpecInput  the record counters NR and FNR over the input files         *)
(***************************************************************************)
EXTENDS Integers, Sequences, FiniteSets, TLC

VARIABLES
    \* interp struct: file, line and field handling (interp.go 90-99)
    line, lineIsTrueStr, fields, fieldsIsTrueStr, numFields, haveFields,
    \* interp struct: built-in variables FS and OFS (interp.go 105, 110)
    fieldSep, outputFieldSep,
    \* history of the field engine: the last operation and its result, the FS
    \* in effect when the current record was set, whether the fields were
    \* written since
    fieldOp, readFS, dirty,
    \* interp struct: p.arrays, each a map from key to value (interp.go 85)
    arrays,
    \* the for (k in a) statement being executed: its position, the keys the
    \* map range can still produce, the loop variable
    loopPc, rangeLeft, loopVar,
    \* history of the loop and of the last array operation: the keys of the
    \* array at loop entry, the keys visited in order, how the loop ended
    entryKeys, visited, loopEnd, arrayOp,
    \* parser.Program: the number of BEGIN blocks, len(action.Pattern) of
    \* each action, the number of END blocks
    nBegin, patterns, nEnd,
    \* ExecProgram: where the run is (pc), the BEGIN/END block and the action
    \* being executed, execActions' inRange, p.exitStatus, what ExecProgram
    \* returned
    pc, blk, act, inRange, exitStatus, retStatus, retErr,
    \* the main input: a record was read, end of input was reached
    anyRead, eof,
    \* history of the run: the value of the last exit expression, where exit
    \* statements ran, whether a record was read after an exit in BEGIN or in an
    \* action, whether the record loop read a record, END blocks started, the runtime
    \* error raised, and for the current record of the record loop: the action
    \* whose body ran next, inRange at that moment, the actions evaluated
    lastExitExpr, exitBegin, exitAction, exitEnd, readAfterExit, loopRead,
    endRun, raised, skipFrom, inRangeAtNext, touched,
    \* interp struct: p.lineNum (NR) and p.fileLineNum (FNR) (interp.go 94-95)
    lineNum, fileLineNum,
    \* the main input: the number of input files opened so far, all input read
    filesOpened, inputDone,
    \* history of the counters: NR or FNR was assigned, the last operation
    nrAssigned, inputOp,
    \* a global variable x (interp.globals) and the last expression evaluated
    globalX, exprOp,
    \* the output and error sinks hold unflushed output, the last getline
    outBuffered, errBuffered, getlineOp,
    \* interp struct: p.regexCache (interp.go 121), and the last compileRegex
    regexCache, regexOp,
    \* the loop statement execute runs (a C-style for or a do-while), where it
    \* is in it, the error execute returned, how often the condition, the body
    \* and the post-statement ran, and the error the last body returned
    stmt, stmtAt, stmtRet, nCond, nBody, nPost, bodyErr

fieldVars == <<line, lineIsTrueStr, fields, fieldsIsTrueStr, numFields,
               haveFields, fieldSep, outputFieldSep, fieldOp, readFS, dirty>>

arrayVars == <<arrays, loopPc, rangeLeft, loopVar, entryKeys, visited, loopEnd, arrayOp>>

progVars == <<nBegin, patterns, nEnd>>

ctlVars == <<pc, blk, act, retStatus, retErr, endRun>>

histVars == <<lastExitExpr, exitBegin, exitAction, exitEnd, readAfterExit, loopRead,
              raised, skipFrom, inRangeAtNext, touched>>

runVars == <<progVars, ctlVars, inRange, exitStatus, anyRead, eof, histVars>>

inputVars == <<lineNum, fileLineNum, filesOpened, inputDone, nrAssigned, inputOp>>

exprVars == <<globalX, exprOp>>

ioVars == <<outBuffered, errBuffered, getlineOp>>

cacheVars == <<regexCache, regexOp>>

stmtVars == <<stmt, stmtAt, stmtRet, nCond, nBody, nPost, bodyErr>>

vars == <<fieldVars, arrayVars, runVars, inputVars, exprVars, ioVars, cacheVars,
          stmtVars>>

\* the variables the actions of each part leave alone
notField == <<arrayVars, runVars, inputVars, exprVars, ioVars, cacheVars, stmtVars>>
notArray == <<fieldVars, runVars, inputVars, exprVars, ioVars, cacheVars, stmtVars>>
notRun == <<fieldVars, arrayVars, inputVars, exprVars, ioVars, cacheVars, stmtVars>>
notInput == <<fieldVars, arrayVars, runVars, exprVars, ioVars, cacheVars, stmtVars>>
notExpr == <<fieldVars, arrayVars, runVars, inputVars, ioVars, cacheVars, stmtVars>>
notGetline == <<arrayVars, runVars, exprOp, cacheVars, stmtVars>>
notCache == <<fieldVars, arrayVars, runVars, inputVars, exprVars, ioVars, stmtVars>>
notStmt == <<fieldVars, arrayVars, runVars, inputVars, exprVars, ioVars, cacheVars>>

----------------------------------------------------------------------------
(* Bounds and program constants *)

\* largest field index and NF value the actions assign (besides the huge one)
MaxFieldIdx == 2

maxFieldIndex == 1000000

\* most iterations of one for (k in a) loop
MaxVisits == 2

\* most BEGIN blocks and most END blocks of a program
MaxBlocks == 2

\* most pattern-action pairs of a program
MaxActions == 2

\* most input files, and the record number beyond which no record is read
MaxFiles == 2
MaxLineNum == 3

\* the largest number an arithmetic operation yields
MaxNum == 2

maxCachedRegexes == 100

\* the valid regexes compiled beyond those that fill the cache
MaxExtra == 2

\* most executions of the body of a loop, deepest nesting of a statement in it
MaxIter == 2
MaxDepth == 2

----------------------------------------------------------------------------
(* Strings *)

\* strings.Join
RECURSIVE Join(_, _)
Join(elems, sep) ==
    IF Len(elems) = 0 THEN <<>>
    ELSE IF Len(elems) = 1 THEN elems[1]
    ELSE elems[1] \o sep \o Join(Tail(elems), sep)

\* strings.Split(s, c) for a one-character separator c
RECURSIVE SplitFrom(_, _, _, _)
SplitFrom(s, c, i, cur) ==
    IF i > Len(s) THEN <<cur>>
    ELSE IF s[i] = c THEN <<cur>> \o SplitFrom(s, c, i + 1, <<>>)
    ELSE SplitFrom(s, c, i + 1, Append(cur, s[i]))

\* strings.Fields(s): the maximal runs of non-space characters
RECURSIVE FieldsFrom(_, _, _)
FieldsFrom(s, i, cur) ==
    IF i > Len(s) THEN (IF cur = <<>> THEN <<>> ELSE <<cur>>)
    ELSE IF s[i] = " "
         THEN (IF cur = <<>> THEN <<>> ELSE <<cur>>) \o FieldsFrom(s, i + 1, <<>>)
    ELSE FieldsFrom(s, i + 1, Append(cur, s[i]))

\* a conversion that rounds down
ToInt_Floor(t) == t \div 10

\* int(v.num()) of a number given in tenths: truncation toward zero
ToInt(t) == IF t >= 0 THEN t \div 10 ELSE -((-t) \div 10)

\* seq with the copies of v put in front
PadTo_Front(seq, n, v) ==
    [i \in 1..(IF n > Len(seq) THEN n ELSE Len(seq)) |->
        IF n > Len(seq) /\ i <= n - Len(seq) THEN v
        ELSE seq[i - (IF n > Len(seq) THEN n - Len(seq) ELSE 0)]]

\* seq extended with copies of v up to length n (the append loops)
PadTo(seq, n, v) ==
    [i \in 1..(IF n > Len(seq) THEN n ELSE Len(seq)) |->
        IF i <= Len(seq) THEN seq[i] ELSE v]

----------------------------------------------------------------------------
(* Values *)

\* bytes of the characters that occur in the modelled strings
CharCode(c) ==
    CASE c = " " -> 32 [] c = "," -> 44 [] c = "-" -> 45
      [] c = "0" -> 48 [] c = "1" -> 49 [] c = "2" -> 50 [] c = "3" -> 51
      [] c = "4" -> 52 [] c = "5" -> 53 [] c = "6" -> 54 [] c = "7" -> 55
      [] c = "8" -> 56 [] c = "9" -> 57
      [] c = "a" -> 97 [] c = "b" -> 98 [] c = "c" -> 99 [] c = "x" -> 120
      [] OTHER -> 127

IsDigit(c) == CharCode(c) >= 48 /\ CharCode(c) <= 57

\* Go's < on strings: bytewise lexicographic order
RECURSIVE StrLess(_, _)
StrLess(s, t) ==
    IF t = <<>> THEN FALSE
    ELSE IF s = <<>> THEN TRUE
    ELSE IF s[1] # t[1] THEN CharCode(s[1]) < CharCode(t[1])
    ELSE StrLess(Tail(s), Tail(t))

\* the decimal digits of a natural number
RECURSIVE NatToStr(_)
NatToStr(n) ==
    IF n < 10 THEN <<CHOOSE c \in {"0", "1", "2", "3", "4", "5", "6", "7", "8", "9"} :
                        CharCode(c) = 48 + n>>
    ELSE NatToStr(n \div 10) \o NatToStr(n % 10)

\* an integer-valued number as a string ("integers print without decimals")
IntToStr(n) == IF n < 0 THEN <<"-">> \o NatToStr(-n) ELSE NatToStr(n)

\* the index of the first character of s at or after i that is not a space
RECURSIVE SkipSpaces(_, _)
SkipSpaces(s, i) ==
    IF i <= Len(s) /\ s[i] = " " THEN SkipSpaces(s, i + 1) ELSE i

\* the digits of s from i on: <<their value, the index after them>>
RECURSIVE DigitsFrom(_, _, _)
DigitsFrom(s, i, acc) ==
    IF i <= Len(s) /\ IsDigit(s[i])
    THEN DigitsFrom(s, i + 1, 10 * acc + (CharCode(s[i]) - 48))
    ELSE <<acc, i>>

\* the numeric parse of a string: optional spaces, optional sign, digits.
\* n is the value of the numeric prefix (0 if there is none) and clean says
\* that the string is a number end to end
parseNum(s) ==
    LET i0 == SkipSpaces(s, 1)
        neg == i0 <= Len(s) /\ s[i0] = "-"
        i1 == IF neg THEN i0 + 1 ELSE i0
        d == DigitsFrom(s, i1, 0)
        i2 == SkipSpaces(s, d[2])
    IN  [n |-> IF d[2] = i1 THEN 0 ELSE IF neg THEN -d[1] ELSE d[1],
         clean |-> d[2] > i1 /\ i2 > Len(s)]

\* the four variants of a value
null == [kind |-> "null", n |-> 0, s |-> <<>>]
num(f) == [kind |-> "num", n |-> f, s |-> <<>>]
str(t) == [kind |-> "str", n |-> 0, s |-> t]
numStr(t) == [kind |-> "numStr", n |-> 0, s |-> t]

\* boolean(b): the number 1 or 0
boolean(b) == num(IF b THEN 1 ELSE 0)

\* v.num()
valueNum(v) ==
    CASE v.kind = "num" -> v.n
      [] v.kind \in {"str", "numStr"} -> parseNum(v.s).n
      [] OTHER -> 0

\* v.isTrueStr(): a str, or a numStr that is not a number end to end
valueIsTrueStr(v) ==
    CASE v.kind = "str" -> TRUE
      [] v.kind = "numStr" -> ~parseNum(v.s).clean
      [] OTHER -> FALSE

\* v.boolean()
valueBoolean(v) ==
    CASE v.kind = "num" -> v.n # 0
      [] v.kind \in {"str", "numStr"} -> v.s # <<>>
      [] OTHER -> FALSE

\* p.toString(v): v.str(p.convertFormat), of integer-valued numbers
toString(v) ==
    CASE v.kind = "num" -> IntToStr(v.n)
      [] v.kind \in {"str", "numStr"} -> v.s
      [] OTHER -> <<>>

\* math.Mod on integers: the remainder has the sign of the dividend
fmod(x, y) ==
    LET ax == IF x < 0 THEN -x ELSE x
        ay == IF y < 0 THEN -y ELSE y
    IN  IF x < 0 THEN -(ax % ay) ELSE ax % ay

\* the quotient x / y, where it is an integer
quotient(x, y) ==
    LET ax == IF x < 0 THEN -x ELSE x
        ay == IF y < 0 THEN -y ELSE y
    IN  IF (x < 0) = (y < 0) THEN ax \div ay ELSE -(ax \div ay)

\* the operands evalBinary is defined on: the quotient is an integer
exact(op, l, r) ==
    (op = "/" /\ valueNum(r) # 0) => fmod(valueNum(l), valueNum(r)) = 0

\* evalBinary: lIsStr || rIsStr, were it lIsStr && rIsStr
useStrings_Both(l, r) == valueIsTrueStr(l) /\ valueIsTrueStr(r)

\* evalBinary: lIsStr || rIsStr
useStrings(l, r) == valueIsTrueStr(l) \/ valueIsTrueStr(r)

\* evalBinary with Go's == and < on the operands of a comparison
compare(op, l, r) ==
    LET useStr == useStrings(l, r)
        ls == toString(l)
        rs == toString(r)
        ln == valueNum(l)
        rn == valueNum(r)
    IN  CASE op = "==" -> IF useStr THEN ls = rs ELSE ln = rn
          [] op = "!=" -> IF useStr THEN ls # rs ELSE ln # rn
          [] op = "<" -> IF useStr THEN StrLess(ls, rs) ELSE ln < rn
          [] op = "<=" -> IF useStr THEN (StrLess(ls, rs) \/ ls = rs) ELSE ln <= rn
          [] op = ">" -> IF useStr THEN StrLess(rs, ls) ELSE ln > rn
          [] op = ">=" -> IF useStr THEN (StrLess(rs, ls) \/ rs = ls) ELSE ln >= rn

CompareOps == {"==", "!=", "<", "<=", ">", ">="}

\* evalBinary(op, l, r): the value and the error ("" for nil)
evalBinary(op, l, r) ==
    CASE op = "+" -> [v |-> num(valueNum(l) + valueNum(r)), err |-> ""]
      [] op \in CompareOps -> [v |-> boolean(compare(op, l, r)), err |-> ""]
      [] op = "/" ->
            IF valueNum(r) = 0 THEN [v |-> null, err |-> "division by zero"]
            ELSE [v |-> num(quotient(valueNum(l), valueNum(r))), err |-> ""]
      [] op = "%" ->
            IF valueNum(r) = 0 THEN [v |-> null, err |-> "division by zero in mod"]
            ELSE [v |-> num(fmod(valueNum(l), valueNum(r))), err |-> ""]

----------------------------------------------------------------------------
(* The record/field engine *)

\* the records read, the strings assigned to fields, the FS and OFS values
Lines == { <<>>, <<"a", " ", "b">>, <<" ", "a", ",", "b", " ", "c">> }
FieldVals == { <<"x">> }
FSVals == { <<" ">>, <<",">> }
OFSVals == { <<" ">>, <<"-">> }
FieldIdx == (-1 .. MaxFieldIdx) \cup {maxFieldIndex + 1}
NFVals == { 10 * n : n \in 0 .. MaxFieldIdx } \cup {-10, -5, 15, 10 * (maxFieldIndex + 1)}

NoOp == [op |-> "none", index |-> 0, err |-> "", val |-> <<>>, kind |-> "null"]

\* the lazy split: whitespace mode for FS == " ", else a literal one-character
\* separator; an empty record has no fields
splitRecord(l, fs) ==
    IF fs = <<" ">> THEN FieldsFrom(l, 1, <<>>)
    ELSE IF l = <<>> THEN <<>>
    ELSE SplitFrom(l, fs[1], 1, <<>>)

\* p.line = strings.Join(p.fields, p.outputFieldSep), with FS in place of OFS
joinFields_FS(f) == Join(f, fieldSep)

\* p.line = strings.Join(p.fields, p.outputFieldSep)
joinFields(f) == Join(f, outputFieldSep)

\* ensureFields: the fields, their flags and NF once the record is split
ensureFields ==
    IF haveFields
    THEN [fields |-> fields, fieldsIsTrueStr |-> fieldsIsTrueStr, numFields |-> numFields]
    ELSE LET f == splitRecord(line, fieldSep)
         IN  [fields |-> f, fieldsIsTrueStr |-> [i \in 1..Len(f) |-> FALSE],
              numFields |-> Len(f)]

\* setLine(line, isTrueStr): a new record invalidates the fields
setLine(l, isTrueStr) ==
    /\ line' = l
    /\ lineIsTrueStr' = isTrueStr
    /\ haveFields' = FALSE
    /\ readFS' = fieldSep
    /\ dirty' = FALSE
    /\ UNCHANGED <<fields, fieldsIsTrueStr, numFields>>

\* execActions: p.setLine(line, false) for the record nextLine returned
readRecord(l) ==
    /\ setLine(l, FALSE)
    /\ fieldOp' = [NoOp EXCEPT !.op = "readRecord"]
    /\ UNCHANGED <<fieldSep, outputFieldSep>>
    /\ UNCHANGED notField

\* an error return that also empties the record
fieldError_ClearsRecord(op, index, msg) ==
    /\ fieldOp' = [NoOp EXCEPT !.op = op, !.index = index, !.err = msg]
    /\ line' = <<>>
    /\ UNCHANGED <<lineIsTrueStr, fields, fieldsIsTrueStr, numFields,
                   haveFields, fieldSep, outputFieldSep, readFS, dirty>>

\* a return without the error
fieldError_NoError(op, index, msg) ==
    /\ fieldOp' = [NoOp EXCEPT !.op = op, !.index = index]
    /\ UNCHANGED <<line, lineIsTrueStr, fields, fieldsIsTrueStr, numFields,
                   haveFields, fieldSep, outputFieldSep, readFS, dirty>>

\* newError returns of getField, setField and setVar: nothing is modified
fieldError(op, index, msg) ==
    /\ fieldOp' = [NoOp EXCEPT !.op = op, !.index = index, !.err = msg]
    /\ UNCHANGED <<line, lineIsTrueStr, fields, fieldsIsTrueStr, numFields,
                   haveFields, fieldSep, outputFieldSep, readFS, dirty>>

\* setField padding with fields tagged as numeric strings
setFieldVars_PadNumStr(index, value) ==
    /\ IF index = 0
       THEN /\ setLine(value, TRUE)
            /\ fieldOp' = [NoOp EXCEPT !.op = "setField", !.val = value]
            /\ UNCHANGED <<fieldSep, outputFieldSep>>
       ELSE IF index < 0 THEN fieldError("setField", index, "field index negative")
       ELSE IF index > maxFieldIndex THEN fieldError("setField", index, "field index too large")
       ELSE LET e == ensureFields
                grownF == PadTo(e.fields, index, <<>>)
                grownT == PadTo(e.fieldsIsTrueStr, index, FALSE)
                newF == [grownF EXCEPT ![index] = value]
            IN  /\ fields' = newF
                /\ fieldsIsTrueStr' = [grownT EXCEPT ![index] = TRUE]
                /\ numFields' = Len(newF)
                /\ line' = joinFields(newF)
                /\ lineIsTrueStr' = TRUE
                /\ haveFields' = TRUE
                /\ dirty' = TRUE
                /\ fieldOp' = [NoOp EXCEPT !.op = "setField", !.index = index, !.val = value]
                /\ UNCHANGED <<fieldSep, outputFieldSep, readFS>>

\* setField(index, value): what it does to the record and the fields
setFieldVars(index, value) ==
    /\ IF index = 0
       THEN /\ setLine(value, TRUE)
            /\ fieldOp' = [NoOp EXCEPT !.op = "setField", !.val = value]
            /\ UNCHANGED <<fieldSep, outputFieldSep>>
       ELSE IF index < 0 THEN fieldError("setField", index, "field index negative")
       ELSE IF index > maxFieldIndex THEN fieldError("setField", index, "field index too large")
       ELSE LET e == ensureFields
                grownF == PadTo(e.fields, index, <<>>)
                grownT == PadTo(e.fieldsIsTrueStr, index, TRUE)
                newF == [grownF EXCEPT ![index] = value]
            IN  /\ fields' = newF
                /\ fieldsIsTrueStr' = [grownT EXCEPT ![index] = TRUE]
                /\ numFields' = Len(newF)
                /\ line' = joinFields(newF)
                /\ lineIsTrueStr' = TRUE
                /\ haveFields' = TRUE
                /\ dirty' = TRUE
                /\ fieldOp' = [NoOp EXCEPT !.op = "setField", !.index = index, !.val = value]
                /\ UNCHANGED <<fieldSep, outputFieldSep, readFS>>

\* setField(index, value): $index = value
setField(index, value) ==
    /\ setFieldVars(index, value)
    /\ UNCHANGED notField

\* getField appending empty fields up to the index it reads
getField_Grows(index) ==
    /\ IF index < 0 THEN fieldError("getField", index, "field index negative")
       ELSE IF index = 0
       THEN /\ fieldOp' = [NoOp EXCEPT !.op = "getField", !.val = line,
                                       !.kind = IF lineIsTrueStr THEN "str" ELSE "numStr"]
            /\ UNCHANGED <<line, lineIsTrueStr, fields, fieldsIsTrueStr, numFields,
                           haveFields, fieldSep, outputFieldSep, readFS, dirty>>
       ELSE LET e == ensureFields
                n == IF index > maxFieldIndex THEN Len(e.fields) ELSE index
                grownF == PadTo(e.fields, n, <<>>)
            IN  /\ fields' = grownF
                /\ fieldsIsTrueStr' = PadTo(e.fieldsIsTrueStr, n, TRUE)
                /\ numFields' = Len(grownF)
                /\ haveFields' = TRUE
                /\ fieldOp' =
                     IF index > Len(e.fields)
                     THEN [NoOp EXCEPT !.op = "getField", !.index = index, !.kind = "str"]
                     ELSE [NoOp EXCEPT !.op = "getField", !.index = index,
                                       !.val = e.fields[index],
                                       !.kind = IF e.fieldsIsTrueStr[index]
                                                THEN "str" ELSE "numStr"]
                /\ UNCHANGED <<line, lineIsTrueStr, fieldSep, outputFieldSep, readFS, dirty>>
    /\ UNCHANGED notField

\* getField(index): $index
getField(index) ==
    /\ IF index < 0 THEN fieldError("getField", index, "field index negative")
       ELSE IF index = 0
       THEN /\ fieldOp' = [NoOp EXCEPT !.op = "getField", !.val = line,
                                       !.kind = IF lineIsTrueStr THEN "str" ELSE "numStr"]
            /\ UNCHANGED <<line, lineIsTrueStr, fields, fieldsIsTrueStr, numFields,
                           haveFields, fieldSep, outputFieldSep, readFS, dirty>>
       ELSE LET e == ensureFields
            IN  /\ fields' = e.fields
                /\ fieldsIsTrueStr' = e.fieldsIsTrueStr
                /\ numFields' = e.numFields
                /\ haveFields' = TRUE
                /\ fieldOp' =
                     IF index > Len(e.fields)
                     THEN [NoOp EXCEPT !.op = "getField", !.index = index, !.kind = "str"]
                     ELSE [NoOp EXCEPT !.op = "getField", !.index = index,
                                       !.val = e.fields[index],
                                       !.kind = IF e.fieldsIsTrueStr[index]
                                                THEN "str" ELSE "numStr"]
                /\ UNCHANGED <<line, lineIsTrueStr, fieldSep, outputFieldSep, readFS, dirty>>
    /\ UNCHANGED notField

\* setVar(ScopeSpecial, V_NF, v) without p.fields = p.fields[:p.numFields]
setVarNF_NoCut(v) ==
    /\ LET n == ToInt(v)
       IN  IF n < 0 THEN fieldError("setNF", n, "NF set to negative value")
           ELSE IF n > maxFieldIndex THEN fieldError("setNF", n, "NF set too large")
           ELSE LET e == ensureFields
                    newF == PadTo(e.fields, n, <<>>)
                IN  /\ numFields' = n
                    /\ fields' = newF
                    /\ fieldsIsTrueStr' = PadTo(e.fieldsIsTrueStr, n, FALSE)
                    /\ line' = joinFields(newF)
                    /\ lineIsTrueStr' = TRUE
                    /\ haveFields' = TRUE
                    /\ dirty' = TRUE
                    /\ fieldOp' = [NoOp EXCEPT !.op = "setNF", !.index = n]
                    /\ UNCHANGED <<fieldSep, outputFieldSep, readFS>>
    /\ UNCHANGED notField

\* setVar(ScopeSpecial, V_NF, v) without
\* p.fieldsIsTrueStr = p.fieldsIsTrueStr[:p.numFields]
setVarNF_KeepFlags(v) ==
    /\ LET n == ToInt(v)
       IN  IF n < 0 THEN fieldError("setNF", n, "NF set to negative value")
           ELSE IF n > maxFieldIndex THEN fieldError("setNF", n, "NF set too large")
           ELSE LET e == ensureFields
                    cutF == IF n < Len(e.fields) THEN SubSeq(e.fields, 1, n) ELSE e.fields
                    newF == PadTo(cutF, n, <<>>)
                IN  /\ numFields' = n
                    /\ fields' = newF
                    /\ fieldsIsTrueStr' = PadTo(e.fieldsIsTrueStr, n, FALSE)
                    /\ line' = joinFields(newF)
                    /\ lineIsTrueStr' = TRUE
                    /\ haveFields' = TRUE
                    /\ dirty' = TRUE
                    /\ fieldOp' = [NoOp EXCEPT !.op = "setNF", !.index = n]
                    /\ UNCHANGED <<fieldSep, outputFieldSep, readFS>>
    /\ UNCHANGED notField

\* setVar(ScopeSpecial, V_NF, v): NF = v, v in tenths
setVarNF(v) ==
    /\ LET n == ToInt(v)
       IN  IF n < 0 THEN fieldError("setNF", n, "NF set to negative value")
           ELSE IF n > maxFieldIndex THEN fieldError("setNF", n, "NF set too large")
           ELSE LET e == ensureFields
                    cutF == IF n < Len(e.fields) THEN SubSeq(e.fields, 1, n) ELSE e.fields
                    cutT == IF n < Len(e.fields)
                            THEN SubSeq(e.fieldsIsTrueStr, 1, n) ELSE e.fieldsIsTrueStr
                    newF == PadTo(cutF, n, <<>>)
                IN  /\ numFields' = n
                    /\ fields' = newF
                    /\ fieldsIsTrueStr' = PadTo(cutT, n, FALSE)
                    /\ line' = joinFields(newF)
                    /\ lineIsTrueStr' = TRUE
                    /\ haveFields' = TRUE
                    /\ dirty' = TRUE
                    /\ fieldOp' = [NoOp EXCEPT !.op = "setNF", !.index = n]
                    /\ UNCHANGED <<fieldSep, outputFieldSep, readFS>>
    /\ UNCHANGED notField

\* getVar(ScopeSpecial, V_NF): NF
getVarNF ==
    /\ LET e == ensureFields
       IN  /\ fields' = e.fields
           /\ fieldsIsTrueStr' = e.fieldsIsTrueStr
           /\ numFields' = e.numFields
           /\ haveFields' = TRUE
           /\ fieldOp' = [NoOp EXCEPT !.op = "getNF", !.index = e.numFields]
    /\ UNCHANGED <<line, lineIsTrueStr, fieldSep, outputFieldSep, readFS, dirty>>
    /\ UNCHANGED notField

\* setVar(ScopeSpecial, V_FS, v) for a one-character v: FS = v
setVarFS(s) ==
    /\ fieldSep' = s
    /\ fieldOp' = [NoOp EXCEPT !.op = "setFS"]
    /\ UNCHANGED <<line, lineIsTrueStr, fields, fieldsIsTrueStr, numFields,
                   haveFields, outputFieldSep, readFS, dirty>>
    /\ UNCHANGED notField

\* setVar(ScopeSpecial, V_OFS, v): OFS = v
setVarOFS(s) ==
    /\ outputFieldSep' = s
    /\ fieldOp' = [NoOp EXCEPT !.op = "setOFS"]
    /\ UNCHANGED <<line, lineIsTrueStr, fields, fieldsIsTrueStr, numFields,
                   haveFields, fieldSep, readFS, dirty>>
    /\ UNCHANGED notField

\* the operators and right operands of the augmented assignments
AugOps == {"+", "/", "%"}
AugRight == {num(0), num(2), str(<<"x">>)}

\* getField's value: $index of the record once split
fieldValue(e, index) ==
    IF index = 0 THEN (IF lineIsTrueStr THEN str(line) ELSE numStr(line))
    ELSE IF index > Len(e.fields) THEN str(<<>>)
    ELSE IF e.fieldsIsTrueStr[index] THEN str(e.fields[index])
    ELSE numStr(e.fields[index])

\* eval(AugAssignExpr) on a field, $index op= r: evalForAugAssign reads the
\* field with getField, evalBinary computes, assignAug stores with setField
augAssignField(index, op, r) ==
    IF index < 0
    THEN fieldError("augAssign", index, "field index negative") /\ UNCHANGED notField
    ELSE LET e == IF index = 0
                  THEN [fields |-> fields, fieldsIsTrueStr |-> fieldsIsTrueStr,
                        numFields |-> numFields]
                  ELSE ensureFields
             left == fieldValue(e, index)
             res == evalBinary(op, left, r)
         IN  /\ exact(op, left, r)
             /\ valueNum(res.v) <= MaxNum
             /\ IF res.err # ""
                THEN /\ fields' = e.fields
                     /\ fieldsIsTrueStr' = e.fieldsIsTrueStr
                     /\ numFields' = e.numFields
                     /\ haveFields' = (haveFields \/ index # 0)
                     /\ fieldOp' = [NoOp EXCEPT !.op = "augAssign", !.index = index,
                                                !.err = res.err]
                     /\ UNCHANGED <<line, lineIsTrueStr, fieldSep, outputFieldSep,
                                    readFS, dirty>>
                     /\ UNCHANGED notField
                ELSE setField(index, toString(res.v))

\* eval(IncrExpr) on a field, $index++: the same reads and stores with 1 added
incrField(index) == augAssignField(index, "+", num(1))

\* execInit: the field state of a fresh interp (FS and OFS a single space)
FieldIdle ==
    /\ line = <<>>
    /\ lineIsTrueStr = FALSE
    /\ fields = <<>>
    /\ fieldsIsTrueStr = <<>>
    /\ numFields = 0
    /\ haveFields = FALSE
    /\ fieldSep = <<" ">>
    /\ outputFieldSep = <<" ">>
    /\ fieldOp = NoOp
    /\ readFS = <<" ">>
    /\ dirty = FALSE

FieldNext ==
    \/ \E l \in Lines : readRecord(l)
    \/ \E i \in FieldIdx, v \in FieldVals : setField(i, v)
    \/ \E i \in FieldIdx : getField(i)
    \/ \E v \in NFVals : setVarNF(v)
    \/ getVarNF
    \/ \E s \in FSVals : setVarFS(s)
    \/ \E s \in OFSVals : setVarOFS(s)

----------------------------------------------------------------------------
(* Arrays *)

ArrayIds == {1, 2}
Keys == {"x", "y"}
Values == {null, str(<<"x">>)}

NoArrayOp == [op |-> "none", array |-> 0, key |-> "", ret |-> null]

\* array[index] = v on a map
mapSet(m, k, v) == [j \in DOMAIN m \cup {k} |-> IF j = k THEN v ELSE m[j]]

\* delete(array, index) on a map
mapDelete(m, k) == [j \in DOMAIN m \ {k} |-> m[j]]

\* eval(InExpr): _, ok := array[index]
inValue(arrs, a, k) == k \in DOMAIN arrs[a]

\* getArrayValue without the insertion of a missing key
getArrayValueMap_NoInsert(m, k) == m

\* getArrayValue: the map after a reference to key k (a missing key is
\* created with the null value)
getArrayValueMap(m, k) == IF k \in DOMAIN m THEN m ELSE mapSet(m, k, null)

\* A key created in the array a running map range iterates over may be
\* produced by the range or skipped (the Go specification leaves it open);
\* a deleted key not yet reached is not produced.
rangeAfter(a, before, after, left) ==
    IF a = 1 /\ loopPc = "body"
    THEN { l \in SUBSET (DOMAIN after) :
             /\ (left \cap DOMAIN after) \subseteq l
             /\ l \subseteq (left \cap DOMAIN after) \cup (DOMAIN after \ DOMAIN before) }
    ELSE { left }

\* the statements and expressions on arrays run outside a loop or in its body
arrayOpEnabled == loopPc \in {"idle", "body"}

\* eval(InExpr): k in a
inExpr(a, k) ==
    /\ arrayOpEnabled
    /\ arrayOp' = [op |-> "in", array |-> a, key |-> k,
                   ret |-> IF inValue(arrays, a, k) THEN "1" ELSE "0"]
    /\ UNCHANGED <<arrays, loopPc, rangeLeft, loopVar, entryKeys, visited, loopEnd>>
    /\ UNCHANGED notArray

\* eval(IndexExpr): a[k], through getArrayValue
getArrayValue(a, k) ==
    /\ arrayOpEnabled
    /\ LET m == getArrayValueMap(arrays[a], k)
       IN  /\ arrays' = [arrays EXCEPT ![a] = m]
           /\ arrayOp' = [op |-> "get", array |-> a, key |-> k,
                          ret |-> IF k \in DOMAIN arrays[a] THEN arrays[a][k] ELSE null]
           /\ rangeLeft' \in rangeAfter(a, arrays[a], m, rangeLeft)
    /\ UNCHANGED <<loopPc, loopVar, entryKeys, visited, loopEnd>>
    /\ UNCHANGED notArray

\* assign to IndexExpr: a[k] = v, through setArrayValue
setArrayValue(a, k, v) ==
    /\ arrayOpEnabled
    /\ LET m == mapSet(arrays[a], k, v)
       IN  /\ arrays' = [arrays EXCEPT ![a] = m]
           /\ rangeLeft' \in rangeAfter(a, arrays[a], m, rangeLeft)
    /\ arrayOp' = [op |-> "set", array |-> a, key |-> k, ret |-> v]
    /\ UNCHANGED <<loopPc, loopVar, entryKeys, visited, loopEnd>>
    /\ UNCHANGED notArray

\* execute(DeleteStmt) with an index: delete a[k]
deleteKey(a, k) ==
    /\ arrayOpEnabled
    /\ LET m == mapDelete(arrays[a], k)
       IN  /\ arrays' = [arrays EXCEPT ![a] = m]
           /\ rangeLeft' \in rangeAfter(a, arrays[a], m, rangeLeft)
    /\ arrayOp' = [op |-> "delete", array |-> a, key |-> k, ret |-> null]
    /\ UNCHANGED <<loopPc, loopVar, entryKeys, visited, loopEnd>>
    /\ UNCHANGED notArray

\* execute(DeleteStmt) without an index: delete a
deleteAll(a) ==
    /\ arrayOpEnabled
    /\ arrays' = [arrays EXCEPT ![a] = <<>>]
    /\ rangeLeft' \in rangeAfter(a, arrays[a], <<>>, rangeLeft)
    /\ arrayOp' = [op |-> "deleteAll", array |-> a, key |-> "", ret |-> null]
    /\ UNCHANGED <<loopPc, loopVar, entryKeys, visited, loopEnd>>
    /\ UNCHANGED notArray

\* execute(ForInStmt): for (k in arrays[1]), entering the range
forInEnter ==
    /\ loopPc = "idle"
    /\ loopPc' = "range"
    /\ rangeLeft' = DOMAIN arrays[1]
    /\ entryKeys' = DOMAIN arrays[1]
    /\ visited' = <<>>
    /\ arrayOp' = [NoArrayOp EXCEPT !.op = "forIn"]
    /\ UNCHANGED <<arrays, loopVar, loopEnd>>
    /\ UNCHANGED notArray

\* execute(ForInStmt): the range produces the next key and setVar assigns it
\* to the loop variable, or the range is exhausted and the loop ends
forInRange ==
    /\ loopPc = "range"
    /\ IF rangeLeft = {}
       THEN /\ loopPc' = "done"
            /\ loopEnd' = "exhausted"
            /\ UNCHANGED <<rangeLeft, loopVar, visited>>
       ELSE /\ Len(visited) < MaxVisits
            /\ \E k \in rangeLeft :
                 /\ loopVar' = k
                 /\ rangeLeft' = rangeLeft \ {k}
                 /\ visited' = Append(visited, k)
            /\ loopPc' = "body"
            /\ UNCHANGED loopEnd
    /\ arrayOp' = [NoArrayOp EXCEPT !.op = "forIn"]
    /\ UNCHANGED <<arrays, entryKeys>>
    /\ UNCHANGED notArray

\* execute(ForInStmt): what p.executes(s.Body) returned
forInBody(err) ==
    /\ loopPc = "body"
    /\ IF err \in {"nil", "continue"}
       THEN loopPc' = "range" /\ UNCHANGED loopEnd
       ELSE loopPc' = "done" /\ loopEnd' = err
    /\ arrayOp' = [NoArrayOp EXCEPT !.op = "forIn"]
    /\ UNCHANGED <<arrays, rangeLeft, loopVar, entryKeys, visited>>
    /\ UNCHANGED notArray

\* execInit: the arrays are empty maps; no loop is running
ArrayIdle ==
    /\ arrays = [a \in ArrayIds |-> <<>>]
    /\ loopPc = "idle"
    /\ rangeLeft = {}
    /\ loopVar = ""
    /\ entryKeys = {}
    /\ visited = <<>>
    /\ loopEnd = ""
    /\ arrayOp = NoArrayOp

ArrayNext ==
    \/ \E a \in ArrayIds, k \in Keys : inExpr(a, k)
    \/ \E a \in ArrayIds, k \in Keys : getArrayValue(a, k)
    \/ \E a \in ArrayIds, k \in Keys, v \in Values : setArrayValue(a, k, v)
    \/ \E a \in ArrayIds, k \in Keys : deleteKey(a, k)
    \/ \E a \in ArrayIds : deleteAll(a)
    \/ forInEnter
    \/ forInRange
    \/ \E err \in {"nil", "continue", "break", "error"} : forInBody(err)

----------------------------------------------------------------------------
(* ExecProgram *)

\* the errors statements and patterns raise, and the error of a failed read
Errors == {"E1", "E2"}
ReadError == "EIO"

\* what eval returns for a pattern expression: true, false or an error
PatternVals == {"T", "F"} \cup Errors

\* errBreak, errContinue, errNext, errExit and returnValue
Sentinels == {"break", "continue", "next", "exit", "return"}

\* the values (in tenths) of the expressions of exit statements
ExitVals == {35, -15}

\* The statements of a block, by what execute does with them: a statement
\* that returns nil, a plain getline, exit, exit expr, exit with an expression
\* that fails, next, break, continue and return outside any enclosing loop or
\* function body, and a statement that fails.
Stmts ==
    {<<k, 0>> : k \in {"ok", "getline", "exit", "next", "break", "continue", "return"}}
        \cup {<<"exitExpr", v>> : v \in ExitVals}
        \cup {<<"exitFails", e>> : e \in Errors}
        \cup {<<"fails", e>> : e \in Errors}

\* execute: the error a statement returns
stmtErr(s) ==
    CASE s[1] \in {"ok", "getline"} -> "nil"
      [] s[1] \in {"exit", "exitExpr"} -> "exit"
      [] s[1] \in {"exitFails", "fails"} -> s[2]
      [] OTHER -> s[1]

\* execute(ExitStmt): p.exitStatus after the statement
stmtStatus(s) == IF s[1] = "exitExpr" THEN ToInt(s[2]) ELSE exitStatus

nActions == Len(patterns)

\* ExecProgram: return status, err
finish(st, err) ==
    /\ pc' = "done"
    /\ retStatus' = st
    /\ retErr' = err
    /\ blk' = 0 /\ act' = 0
    /\ UNCHANGED endRun

\* ExecProgram: the status returned with an error, were it p.exitStatus
errStatus_ExitStatus(st) == st

\* ExecProgram: return 0, err
errStatus(st) == 0

\* ExecProgram: err = p.execBeginEnd(program.End), entering the first block
startEnd(st) ==
    IF nEnd = 0 THEN finish(st, "nil")
    ELSE /\ pc' = "end"
         /\ blk' = 1 /\ act' = 0
         /\ endRun' = 1
         /\ UNCHANGED <<retStatus, retErr>>

\* ExecProgram: after execBeginEnd(program.End) returned err
afterEnd(st, err) ==
    IF err \notin {"nil", "exit"} THEN finish(errStatus(st), err) ELSE finish(st, "nil")

\* ExecProgram: after execActions returned err
afterActions(st, err) ==
    IF err \notin {"nil", "exit"} THEN finish(errStatus(st), err) ELSE startEnd(st)

\* ExecProgram: err = p.execActions(program.Actions), entering the line loop
startActions ==
    /\ pc' = "actions"
    /\ blk' = 0 /\ act' = 0
    /\ UNCHANGED <<retStatus, retErr, endRun>>

\* ExecProgram after BEGIN, running the actions even after exit
afterBegin_ActionsAfterExit(st, err) ==
    IF err \notin {"nil", "exit"} THEN finish(errStatus(st), err)
    ELSE IF nActions = 0 /\ nEnd = 0 THEN finish(st, "nil")
    ELSE startActions

\* ExecProgram: after execBeginEnd(program.Begin) returned err
afterBegin(st, err) ==
    IF err \notin {"nil", "exit"} THEN finish(errStatus(st), err)
    ELSE IF nActions = 0 /\ nEnd = 0 THEN finish(st, "nil")
    ELSE IF err # "exit" THEN startActions
    ELSE startEnd(st)

\* execActions: errNext handled like a nil error
bodyResult_NextIgnored(err) == IF err \in {"nil", "next"} THEN "nextStmt" ELSE "return"

\* execActions: what the error of a body statement leads to
bodyResult(err) ==
    IF err = "nil" THEN "nextStmt"
    ELSE IF err = "next" THEN "nextRecord"
    ELSE "return"

\* the history a statement leaves, common to the three kinds of block
stmtHistory(s, phase) ==
    /\ lastExitExpr' = IF s[1] = "exitExpr" THEN <<s[2]>> ELSE lastExitExpr
    /\ exitBegin' = (exitBegin \/ (stmtErr(s) = "exit" /\ phase = "begin"))
    /\ exitAction' = (exitAction \/ (stmtErr(s) = "exit" /\ phase = "body"))
    /\ exitEnd' = (exitEnd \/ (stmtErr(s) = "exit" /\ phase = "end"))
    /\ raised' = IF stmtErr(s) \in Errors THEN stmtErr(s) ELSE raised
    /\ UNCHANGED loopRead

\* eval(GetlineExpr), plain getline: nextLine returns a record, io.EOF or an
\* error; the expression is 1, 0 or -1 and the statement returns nil
getline(s) ==
    IF s[1] = "getline" /\ ~eof
    THEN \/ /\ anyRead' = TRUE
            /\ readAfterExit' = (readAfterExit \/ exitBegin \/ exitAction)
            /\ UNCHANGED eof
         \/ /\ eof' = TRUE
            /\ UNCHANGED <<anyRead, readAfterExit>>
         \/ UNCHANGED <<anyRead, eof, readAfterExit>>
    ELSE UNCHANGED <<anyRead, eof, readAfterExit>>

\* ExecProgram: execInit succeeded; execBeginEnd(program.Begin) starts
execProgram ==
    /\ pc = "init"
    /\ IF nBegin = 0
       THEN afterBegin(exitStatus, "nil")
       ELSE /\ pc' = "begin"
            /\ blk' = 1 /\ act' = 0
            /\ UNCHANGED <<retStatus, retErr, endRun>>
    /\ UNCHANGED <<progVars, inRange, exitStatus, anyRead, eof, histVars>>
    /\ UNCHANGED notRun

\* Config: len(config.Vars), len(config.Environ), and whether setVarByName
\* rejects the value of a Vars entry (an invalid multi-character FS regex, a
\* negative NF); only a list with a name/value pair has an entry to reject
Configs ==
    {c \in [vars : 0..3, environ : 0..3, rejected : BOOLEAN] :
        c.rejected => c.vars >= 2}

\* execInit without the check of len(config.Environ)
execInitErr_NoEnviron(cfg) ==
    IF cfg.vars % 2 # 0 THEN "length of config.Vars must be a multiple of 2"
    ELSE IF cfg.rejected THEN "invalid regex"
    ELSE "nil"

\* execInit: the error it returns for a config ("nil" for none)
execInitErr(cfg) ==
    IF cfg.vars % 2 # 0 THEN "length of config.Vars must be a multiple of 2"
    ELSE IF cfg.environ % 2 # 0 THEN "length of config.Environ must be a multiple of 2"
    ELSE IF cfg.rejected THEN "invalid regex"
    ELSE "nil"

\* the errors of execInit
ConfigErrors == {execInitErr(c) : c \in Configs} \ {"nil"}

\* ExecProgram: p, err := execInit(program, config); an error is returned
\* with status 0 before anything runs, otherwise the BEGIN blocks start
execInit(cfg) ==
    IF execInitErr(cfg) = "nil"
    THEN execProgram
    ELSE /\ pc = "init"
         /\ finish(0, execInitErr(cfg))
         /\ raised' = execInitErr(cfg)
         /\ UNCHANGED <<progVars, inRange, exitStatus, anyRead, eof, lastExitExpr,
                        exitBegin, exitAction, exitEnd, readAfterExit, loopRead,
                        skipFrom, inRangeAtNext, touched>>
         /\ UNCHANGED notRun

\* execBeginEnd / executes: one statement of a BEGIN block
beginStmt(s) ==
    /\ pc = "begin"
    /\ exitStatus' = stmtStatus(s)
    /\ stmtHistory(s, "begin")
    /\ getline(s)
    /\ IF stmtErr(s) = "nil"
       THEN UNCHANGED ctlVars
       ELSE afterBegin(stmtStatus(s), stmtErr(s))
    /\ UNCHANGED <<progVars, inRange, skipFrom, inRangeAtNext, touched>>
    /\ UNCHANGED notRun

\* execBeginEnd: the statements of a BEGIN block are done
beginBlockEnd ==
    /\ pc = "begin"
    /\ IF blk < nBegin
       THEN blk' = blk + 1 /\ UNCHANGED <<pc, act, retStatus, retErr, endRun>>
       ELSE afterBegin(exitStatus, "nil")
    /\ UNCHANGED <<progVars, inRange, exitStatus, anyRead, eof, histVars>>
    /\ UNCHANGED notRun

\* execActions returns: inRange and the history of the current record go
loopExit ==
    /\ inRange' = [i \in 1..nActions |-> FALSE]
    /\ skipFrom' = 0
    /\ inRangeAtNext' = [i \in 1..nActions |-> FALSE]
    /\ touched' = {}

\* execActions: line, err := p.nextLine() at the top of the line loop
nextRecord ==
    /\ pc = "actions"
    /\ \/ /\ ~eof
          /\ anyRead' = TRUE
          /\ loopRead' = TRUE
          /\ readAfterExit' = (readAfterExit \/ exitBegin \/ exitAction)
          /\ skipFrom' = 0
          /\ inRangeAtNext' = inRange
          /\ touched' = {}
          /\ IF nActions = 0
             THEN UNCHANGED ctlVars
             ELSE /\ pc' = "pattern"
                  /\ act' = 1
                  /\ UNCHANGED <<blk, retStatus, retErr, endRun>>
          /\ UNCHANGED <<eof, raised, inRange>>
       \/ /\ eof' = TRUE
          /\ afterActions(exitStatus, "nil")
          /\ loopExit
          /\ UNCHANGED <<anyRead, loopRead, readAfterExit, raised>>
       \/ /\ ~eof
          /\ raised' = ReadError
          /\ afterActions(exitStatus, ReadError)
          /\ loopExit
          /\ UNCHANGED <<anyRead, eof, loopRead, readAfterExit>>
    /\ UNCHANGED <<progVars, exitStatus, lastExitExpr, exitBegin, exitAction, exitEnd>>
    /\ UNCHANGED notRun

\* execActions: the next action of the inner loop, or the next record
nextAction ==
    IF act < nActions
    THEN /\ pc' = "pattern"
         /\ act' = act + 1
         /\ UNCHANGED <<blk, retStatus, retErr, endRun>>
    ELSE startActions

\* execActions evaluating the start expression of a range that is open
evalPattern_StartWhileOpen(start, stop) ==
    /\ pc = "pattern"
    /\ LET n == patterns[act]
           \* the first expression evaluated, if any
           first == IF n = 0 THEN "T" ELSE start
           matched == first = "T"
           \* a range pattern evaluates its end expression once in range
           second == IF n = 2 /\ matched THEN stop ELSE "F"
           err == IF first \in Errors THEN first
                  ELSE IF second \in Errors THEN second ELSE "nil"
       IN  /\ raised' = IF err # "nil" THEN err ELSE raised
           /\ IF err # "nil"
              THEN afterActions(exitStatus, err) /\ loopExit
              ELSE /\ inRange' = IF n = 2
                                 THEN [inRange EXCEPT ![act] = matched /\ second # "T"]
                                 ELSE inRange
                   /\ touched' = touched \cup {act}
                   /\ UNCHANGED <<skipFrom, inRangeAtNext>>
                   /\ IF matched
                      THEN /\ pc' = "body"
                           /\ UNCHANGED <<blk, act, retStatus, retErr, endRun>>
                      ELSE nextAction
    /\ UNCHANGED <<progVars, exitStatus, anyRead, eof, lastExitExpr, exitBegin,
                   exitAction, exitEnd, readAfterExit, loopRead>>
    /\ UNCHANGED notRun

\* execActions: the pattern of action act is evaluated; start and stop are
\* what eval returns for the expressions it evaluates ("T", "F" or an error)
evalPattern(start, stop) ==
    /\ pc = "pattern"
    /\ LET n == patterns[act]
           \* the first expression evaluated, if any
           first == IF n = 0 \/ (n = 2 /\ inRange[act]) THEN "T" ELSE start
           matched == first = "T"
           \* a range pattern evaluates its end expression once in range
           second == IF n = 2 /\ matched THEN stop ELSE "F"
           err == IF first \in Errors THEN first
                  ELSE IF second \in Errors THEN second ELSE "nil"
       IN  /\ raised' = IF err # "nil" THEN err ELSE raised
           /\ IF err # "nil"
              THEN afterActions(exitStatus, err) /\ loopExit
              ELSE /\ inRange' = IF n = 2
                                 THEN [inRange EXCEPT ![act] = matched /\ second # "T"]
                                 ELSE inRange
                   /\ touched' = touched \cup {act}
                   /\ UNCHANGED <<skipFrom, inRangeAtNext>>
                   /\ IF matched
                      THEN /\ pc' = "body"
                           /\ UNCHANGED <<blk, act, retStatus, retErr, endRun>>
                      ELSE nextAction
    /\ UNCHANGED <<progVars, exitStatus, anyRead, eof, lastExitExpr, exitBegin,
                   exitAction, exitEnd, readAfterExit, loopRead>>
    /\ UNCHANGED notRun

\* execActions / executes: one statement of the body of action act (an action
\* without statements runs as the body { print $0 })
bodyStmt(s) ==
    /\ pc = "body"
    /\ exitStatus' = stmtStatus(s)
    /\ stmtHistory(s, "body")
    /\ getline(s)
    /\ CASE bodyResult(stmtErr(s)) = "nextStmt" ->
              /\ UNCHANGED ctlVars
              /\ skipFrom' = IF stmtErr(s) = "next" THEN act ELSE skipFrom
              /\ inRangeAtNext' = IF stmtErr(s) = "next" THEN inRange ELSE inRangeAtNext
              /\ UNCHANGED <<inRange, touched>>
         [] bodyResult(stmtErr(s)) = "nextRecord" ->
              /\ startActions
              /\ skipFrom' = act
              /\ inRangeAtNext' = inRange
              /\ UNCHANGED <<inRange, touched>>
         [] OTHER -> afterActions(stmtStatus(s), stmtErr(s)) /\ loopExit
    /\ UNCHANGED progVars
    /\ UNCHANGED notRun

\* execActions: the statements of the body are done
bodyEnd ==
    /\ pc = "body"
    /\ nextAction
    /\ UNCHANGED <<progVars, inRange, exitStatus, anyRead, eof, histVars>>
    /\ UNCHANGED notRun

\* execBeginEnd / executes: one statement of an END block
endStmt(s) ==
    /\ pc = "end"
    /\ exitStatus' = stmtStatus(s)
    /\ stmtHistory(s, "end")
    /\ getline(s)
    /\ IF stmtErr(s) = "nil"
       THEN UNCHANGED ctlVars
       ELSE afterEnd(stmtStatus(s), stmtErr(s))
    /\ UNCHANGED <<progVars, inRange, skipFrom, inRangeAtNext, touched>>
    /\ UNCHANGED notRun

\* execBeginEnd: the statements of an END block are done
endBlockEnd ==
    /\ pc = "end"
    /\ IF blk < nEnd
       THEN /\ blk' = blk + 1 /\ endRun' = endRun + 1
            /\ UNCHANGED <<pc, act, retStatus, retErr>>
       ELSE afterEnd(exitStatus, "nil")
    /\ UNCHANGED <<progVars, inRange, exitStatus, anyRead, eof, histVars>>
    /\ UNCHANGED notRun

\* no program is running
RunIdle ==
    /\ nBegin = 0 /\ patterns = <<>> /\ nEnd = 0
    /\ pc = "idle" /\ blk = 0 /\ act = 0
    /\ inRange = <<>>
    /\ exitStatus = 0 /\ retStatus = 0 /\ retErr = ""
    /\ anyRead = FALSE /\ eof = FALSE
    /\ lastExitExpr = <<>>
    /\ exitBegin = FALSE /\ exitAction = FALSE /\ exitEnd = FALSE
    /\ readAfterExit = FALSE /\ loopRead = FALSE /\ endRun = 0
    /\ raised = "" /\ skipFrom = 0 /\ inRangeAtNext = <<>> /\ touched = {}

\* ExecProgram is called with a program and execInit has returned its interp
RunStart ==
    /\ nBegin \in 0..MaxBlocks
    /\ nEnd \in 0..MaxBlocks
    /\ patterns \in UNION {[1..n -> {0, 1, 2}] : n \in 0..MaxActions}
    /\ pc = "init" /\ blk = 0 /\ act = 0
    /\ inRange = [i \in 1..Len(patterns) |-> FALSE]
    /\ exitStatus = 0 /\ retStatus = 0 /\ retErr = ""
    /\ anyRead = FALSE /\ eof = FALSE
    /\ lastExitExpr = <<>>
    /\ exitBegin = FALSE /\ exitAction = FALSE /\ exitEnd = FALSE
    /\ readAfterExit = FALSE /\ loopRead = FALSE /\ endRun = 0
    /\ raised = "" /\ skipFrom = 0
    /\ inRangeAtNext = [i \in 1..Len(patterns) |-> FALSE]
    /\ touched = {}

RunNext ==
    \/ \E cfg \in Configs : execInit(cfg)
    \/ \E s \in Stmts : beginStmt(s)
    \/ beginBlockEnd
    \/ nextRecord
    \/ \E start \in PatternVals, stop \in PatternVals : evalPattern(start, stop)
    \/ \E s \in Stmts : bodyStmt(s)
    \/ bodyEnd
    \/ \E s \in Stmts : endStmt(s)
    \/ endBlockEnd

----------------------------------------------------------------------------
(* The record counters *)

\* the values (in tenths) assigned to NR and FNR
CounterVals == {-10, 0, 15, 20}

\* nextLine: the next record of the main input.  The current file yields a
\* record; or it is exhausted (or none is open yet) and the next file that
\* has a record is opened, which restarts FNR; or no file is left (io.EOF).
\* Every record read counts in NR and in FNR.
readMain(outcome) ==
    /\ CASE outcome = "line" ->
              /\ ~inputDone
              /\ lineNum < MaxLineNum
              /\ \/ /\ filesOpened > 0
                    /\ fileLineNum < MaxLineNum
                    /\ fileLineNum' = fileLineNum + 1
                    /\ UNCHANGED filesOpened
                 \/ /\ \E n \in (filesOpened + 1)..MaxFiles :
                          filesOpened' = n
                    /\ fileLineNum' = 1
              /\ lineNum' = lineNum + 1
              /\ inputOp' = "line"
              /\ UNCHANGED inputDone
         [] outcome = "EOF" ->
              /\ inputDone' = TRUE
              /\ inputOp' = "EOF"
              /\ UNCHANGED <<lineNum, fileLineNum, filesOpened>>
         [] OTHER -> UNCHANGED <<lineNum, fileLineNum, filesOpened, inputDone, inputOp>>
    /\ UNCHANGED nrAssigned

\* execActions: line, err := p.nextLine(), a record or io.EOF
nextLine ==
    /\ ~inputDone
    /\ \E outcome \in {"line", "EOF"} : readMain(outcome)
    /\ UNCHANGED notInput

\* setVar(ScopeSpecial, V_NR, v): NR = v, v in tenths
setVarNR(v) ==
    /\ lineNum' = ToInt(v)
    /\ nrAssigned' = TRUE
    /\ inputOp' = "setNR"
    /\ UNCHANGED <<fileLineNum, filesOpened, inputDone>>
    /\ UNCHANGED notInput

\* setVar(ScopeSpecial, V_FNR, v) storing into p.lineNum as well
setVarFNR_BothCounters(v) ==
    /\ fileLineNum' = ToInt(v)
    /\ lineNum' = ToInt(v)
    /\ nrAssigned' = TRUE
    /\ inputOp' = "setFNR"
    /\ UNCHANGED <<filesOpened, inputDone>>
    /\ UNCHANGED notInput

\* setVar(ScopeSpecial, V_FNR, v): FNR = v, v in tenths
setVarFNR(v) ==
    /\ fileLineNum' = ToInt(v)
    /\ nrAssigned' = TRUE
    /\ inputOp' = "setFNR"
    /\ UNCHANGED <<lineNum, filesOpened, inputDone>>
    /\ UNCHANGED notInput

\* getVar(ScopeSpecial, V_NR) and getVar(ScopeSpecial, V_FNR): the values read
getVarNR == lineNum
getVarFNR == fileLineNum

\* execInit: no record read, no file opened
InputIdle ==
    /\ lineNum = 0
    /\ fileLineNum = 0
    /\ filesOpened = 0
    /\ inputDone = FALSE
    /\ nrAssigned = FALSE
    /\ inputOp = "none"

InputNext ==
    \/ nextLine
    \/ \E v \in CounterVals : setVarNR(v)
    \/ \E v \in CounterVals : setVarFNR(v)

----------------------------------------------------------------------------
(* Expressions *)

\* the operands of the comparisons and of && and ||
Operands ==
    {null, num(9), num(10), str(<<"9">>), numStr(<<"1", "0">>), numStr(<<"x">>)}

\* the operands of && and ||
LogicalOperands == {null, num(0), num(2), str(<<"x">>)}

LogicalOps == {"&&", "||"}

NoExprOp == [op |-> "none", l |-> null, r |-> null, v |-> null, err |-> "",
             right |-> FALSE]

\* eval(BinaryExpr): the comparison l op r
evalCompare(op, l, r) ==
    /\ exprOp' = [NoExprOp EXCEPT !.op = op, !.l = l, !.r = r,
                                  !.v = evalBinary(op, l, r).v, !.right = TRUE]
    /\ UNCHANGED globalX
    /\ UNCHANGED notExpr

\* eval(BinaryExpr), AND and OR, evaluating the right operand in every case
shortCircuits_Never(op, left) == FALSE

\* eval(BinaryExpr), AND and OR: the left operand decides the result
shortCircuits(op, left) ==
    \/ op = "&&" /\ ~valueBoolean(left)
    \/ op = "||" /\ valueBoolean(left)

\* eval(BinaryExpr): l && (x = r) and l || (x = r); with rightFails the right
\* operand is an expression that fails before it assigns
evalLogical(op, l, r, rightFails) ==
    /\ IF shortCircuits(op, l)
       THEN /\ exprOp' = [NoExprOp EXCEPT !.op = op, !.l = l, !.r = r,
                                         !.v = num(IF op = "&&" THEN 0 ELSE 1)]
            /\ UNCHANGED globalX
       ELSE IF rightFails
       THEN /\ exprOp' = [NoExprOp EXCEPT !.op = op, !.l = l, !.r = r,
                                         !.err = "E1", !.right = TRUE]
            /\ UNCHANGED globalX
       ELSE /\ exprOp' = [NoExprOp EXCEPT !.op = op, !.l = l, !.r = r,
                                         !.v = boolean(valueBoolean(r)),
                                         !.right = TRUE]
            /\ globalX' = r
    /\ UNCHANGED notExpr

\* eval(AugAssignExpr) on the global variable x, with the target assigned
\* even when evalBinary fails
augAssignVar_StoreOnError(op, r) ==
    LET res == evalBinary(op, globalX, r)
    IN  /\ exact(op, globalX, r)
        /\ valueNum(res.v) <= MaxNum
        /\ exprOp' = [NoExprOp EXCEPT !.op = op, !.err = res.err]
        /\ globalX' = res.v
        /\ UNCHANGED notExpr

\* eval(AugAssignExpr) on the global variable x: x op= r
augAssignVar(op, r) ==
    LET res == evalBinary(op, globalX, r)
    IN  /\ exact(op, globalX, r)
        /\ valueNum(res.v) <= MaxNum
        /\ exprOp' = [NoExprOp EXCEPT !.op = op, !.err = res.err]
        /\ globalX' = IF res.err # "" THEN globalX ELSE res.v
        /\ UNCHANGED notExpr

\* eval(AugAssignExpr) on an array element: a[k] op= r; evalForAugAssign reads
\* the element with getArrayValue, assignAug stores with setArrayValue
augAssignArray(a, k, op, r) ==
    LET m == getArrayValueMap(arrays[a], k)
        res == evalBinary(op, m[k], r)
    IN  /\ arrayOpEnabled
        /\ exact(op, m[k], r)
        /\ valueNum(res.v) <= MaxNum
        /\ arrays' = [arrays EXCEPT ![a] = IF res.err # "" THEN m
                                           ELSE mapSet(m, k, res.v)]
        /\ arrayOp' = [op |-> IF res.err # "" THEN "augAssignFails" ELSE "augAssign",
                       array |-> a, key |-> k, ret |-> null]
        /\ UNCHANGED <<loopPc, rangeLeft, loopVar, entryKeys, visited, loopEnd>>
        /\ UNCHANGED notArray

\* the four increments and decrements, and the values assigned to x
IncrOps == {"++x", "x++", "--x", "x--"}
IncrOperands == {numStr(<<"1">>)}
IncrLines == { <<"1", " ", "b">> }
IncrFieldIdx == {1}

\* IncrExpr: exprNum + 1 for INCR, exprNum - 1 otherwise
incrNum(op, exprNum) == IF op \in {"++x", "x++"} THEN exprNum + 1 ELSE exprNum - 1

\* IncrExpr returning the incremented value for a post-increment too
incrResult_AlwaysNew(op, exprNum) == num(incrNum(op, exprNum))

\* IncrExpr: incrValue if e.Pre, num(exprNum) otherwise
incrResult(op, exprNum) ==
    IF op \in {"++x", "--x"} THEN num(incrNum(op, exprNum)) ELSE num(exprNum)

\* the numbers the increments stay within
inRangeNum(n) == n >= -MaxNum /\ n <= MaxNum

\* eval(AssignExpr) on the global variable x: x = v
assignVar(v) ==
    /\ globalX' = v
    /\ exprOp' = [NoExprOp EXCEPT !.op = "=", !.v = v]
    /\ UNCHANGED notExpr

\* eval(IncrExpr) on the global variable x
incrVar(op) ==
    LET exprNum == valueNum(globalX)
    IN  /\ inRangeNum(incrNum(op, exprNum))
        /\ globalX' = num(incrNum(op, exprNum))
        /\ exprOp' = [NoExprOp EXCEPT !.op = op, !.v = incrResult(op, exprNum)]
        /\ UNCHANGED notExpr

\* eval(IncrExpr) on an array element: evalForAugAssign reads a[k] with
\* getArrayValue, assignAug stores with setArrayValue
incrArray(a, k, op) ==
    LET m == getArrayValueMap(arrays[a], k)
        exprNum == valueNum(m[k])
    IN  /\ arrayOpEnabled
        /\ inRangeNum(incrNum(op, exprNum))
        /\ arrays' = [arrays EXCEPT ![a] = mapSet(m, k, num(incrNum(op, exprNum)))]
        /\ exprOp' = [NoExprOp EXCEPT !.op = op, !.v = incrResult(op, exprNum)]
        /\ UNCHANGED <<loopPc, rangeLeft, loopVar, entryKeys, visited, loopEnd, arrayOp>>
        /\ UNCHANGED <<fieldVars, runVars, inputVars, globalX, ioVars, cacheVars, stmtVars>>

\* eval(IncrExpr) on a field: evalForAugAssign reads $index with getField,
\* assignAug stores p.toString(incrValue) with setField
incrFieldExpr(index, op) ==
    IF index < 0
    THEN /\ fieldError("incr", index, "field index negative")
         /\ exprOp' = [NoExprOp EXCEPT !.op = op, !.err = "field index negative"]
         /\ UNCHANGED <<arrayVars, runVars, inputVars, globalX, ioVars, cacheVars, stmtVars>>
    ELSE LET e == IF index = 0
                  THEN [fields |-> fields, fieldsIsTrueStr |-> fieldsIsTrueStr,
                        numFields |-> numFields]
                  ELSE ensureFields
             exprNum == valueNum(fieldValue(e, index))
         IN  /\ inRangeNum(incrNum(op, exprNum))
             /\ setFieldVars(index, toString(num(incrNum(op, exprNum))))
             /\ exprOp' = [NoExprOp EXCEPT !.op = op, !.v = incrResult(op, exprNum)]
             /\ UNCHANGED <<arrayVars, runVars, inputVars, globalX, ioVars, cacheVars,
                            stmtVars>>

\* the increments and decrements of a variable, an array element and a field
IncrNext ==
    \/ \E v \in IncrOperands : assignVar(v)
    \/ \E l \in IncrLines : readRecord(l)
    \/ \E op \in IncrOps : incrVar(op)
    \/ \E op \in IncrOps : incrArray(1, "x", op)
    \/ \E i \in IncrFieldIdx, op \in IncrOps : incrFieldExpr(i, op)

\* The index expressions with a side effect: a[x++ % 2 ? "y" : "x"] and
\* $(x++).  The right operands of the augmented assignments on them and the
\* value x is reset to.
IndexRight == {num(0), num(1)}
IndexOperands == {num(1)}

\* the numbers x++ yields as an index
IndexVals == {0, 1}

\* evalIndex of x++ % 2 ? "y" : "x" where x++ yields n
indexKey(n) == IF n % 2 = 0 THEN "x" ELSE "y"

\* assignAug storing under the index a second evaluation gives
storedIndex_Again(remembered, again) == again

\* assignAug(expr, arrayIndex, fieldIndex, v): the index evalForAugAssign
\* returned
storedIndex(remembered, again) == remembered

\* eval(AugAssignExpr) on a[e] where e has a side effect: evalForAugAssign
\* evaluates e, reads the element, and assignAug stores under the same key
augAssignIndexedArray(a, op, r) ==
    LET n == valueNum(globalX)
        k == indexKey(n)
        m == getArrayValueMap(arrays[a], k)
        res == evalBinary(op, m[k], r)
    IN  /\ arrayOpEnabled
        /\ n \in IndexVals
        /\ exact(op, m[k], r)
        /\ valueNum(res.v) <= MaxNum
        /\ globalX' = num(n + 1)
        /\ arrays' = [arrays EXCEPT ![a] =
                         IF res.err # "" THEN m
                         ELSE mapSet(m, storedIndex(k, indexKey(n + 1)), res.v)]
        /\ exprOp' = [NoExprOp EXCEPT !.op = op, !.err = res.err]
        /\ UNCHANGED <<loopPc, rangeLeft, loopVar, entryKeys, visited, loopEnd, arrayOp>>
        /\ UNCHANGED <<fieldVars, runVars, inputVars, ioVars, cacheVars, stmtVars>>

\* eval(IncrExpr) on a[e]: the same reads and stores with 1 added
incrIndexedArray(a) == augAssignIndexedArray(a, "+", num(1))

\* eval(AugAssignExpr) on $(x++): evalForAugAssign evaluates the index, reads
\* the field with getField, and assignAug stores with setField(fieldIndex, ...)
augAssignIndexedField(op, r) ==
    LET n == valueNum(globalX)
        e == IF n = 0
             THEN [fields |-> fields, fieldsIsTrueStr |-> fieldsIsTrueStr,
                   numFields |-> numFields]
             ELSE ensureFields
        left == fieldValue(e, n)
        res == evalBinary(op, left, r)
    IN  /\ n \in IndexVals
        /\ exact(op, left, r)
        /\ valueNum(res.v) <= MaxNum
        /\ globalX' = num(n + 1)
        /\ exprOp' = [NoExprOp EXCEPT !.op = op, !.err = res.err]
        /\ IF res.err # ""
           THEN /\ fields' = e.fields
                /\ fieldsIsTrueStr' = e.fieldsIsTrueStr
                /\ numFields' = e.numFields
                /\ haveFields' = (haveFields \/ n # 0)
                /\ fieldOp' = [NoOp EXCEPT !.op = "augAssign", !.index = n,
                                           !.err = res.err]
                /\ UNCHANGED <<line, lineIsTrueStr, fieldSep, outputFieldSep,
                               readFS, dirty>>
           ELSE setFieldVars(storedIndex(n, n + 1), toString(res.v))
        /\ UNCHANGED <<arrayVars, runVars, inputVars, ioVars, cacheVars, stmtVars>>

\* eval(IncrExpr) on $(x++): the same reads and stores with 1 added
incrIndexedField == augAssignIndexedField("+", num(1))

\* the augmented assignments and increments whose index has a side effect
IndexNext ==
    \/ \E v \in IndexOperands : assignVar(v)
    \/ \E l \in IncrLines : readRecord(l)
    \/ \E op \in AugOps, r \in IndexRight : augAssignIndexedArray(1, op, r)
    \/ incrIndexedArray(1)
    \/ \E op \in AugOps, r \in IndexRight : augAssignIndexedField(op, r)
    \/ incrIndexedField

\* no expression was evaluated, x is uninitialized
ExprIdle ==
    /\ globalX = null
    /\ exprOp = NoExprOp

\* the comparisons and the logical operators
ExprNext ==
    \/ \E op \in CompareOps, l \in Operands, r \in Operands : evalCompare(op, l, r)
    \/ \E op \in LogicalOps, l \in LogicalOperands, r \in LogicalOperands, f \in BOOLEAN :
          evalLogical(op, l, r, f)

\* the augmented assignments and increments
AugNext ==
    \/ \E op \in AugOps, r \in AugRight : augAssignVar(op, r)
    \/ \E op \in AugOps, r \in AugRight : augAssignArray(1, "x", op, r)
    \/ \E op \in AugOps, r \in AugRight : augAssignField(1, op, r)

\* the field expressions: reads, assignments, augmented assignments, increments
FieldExprNext ==
    \/ \E i \in FieldIdx : getField(i)
    \/ \E i \in FieldIdx, v \in FieldVals : setField(i, v)
    \/ \E i \in FieldIdx, op \in AugOps, r \in AugRight : augAssignField(i, op, r)
    \/ \E i \in FieldIdx : incrField(i)

----------------------------------------------------------------------------
(* getline *)

\* the lines getline reads
GetLines == { <<"a", " ", "b">>, <<"7">> }

\* the three forms: getline, getline < file, cmd | getline
Forms == {"plain", "file", "cmd"}

\* the target of a getline: none, the variable x, or the field $index
Targets == {<<"none", 0>>, <<"var", 0>>, <<"field", -1>>, <<"field", 0>>, <<"field", 2>>}

\* what reading brings: a line, the end of the input, a failed read, a file
\* that does not exist (*os.PathError), another error of opening the stream
Outcomes == {"line", "EOF", "scanErr", "missing", "openErr"}

NoGetline == [form |-> "none", target |-> "none", index |-> 0, outcome |-> "none",
              result |-> 0, err |-> "", l |-> <<>>, pending |-> FALSE]

\* eval(GetlineExpr), default case, without p.flushOutputAndError()
plainFlush_None(b) == b

\* eval(GetlineExpr), default case: p.flushOutputAndError() empties the sink
plainFlush(b) == FALSE

\* getInputScannerFile, getInputScannerPipe: the sinks are flushed before the
\* stream is read
scannerFlush(b) == FALSE

\* what a sink holds when the form reads its line
flushed(form, b) == IF form = "plain" THEN plainFlush(b) ELSE scannerFlush(b)

\* the outcomes a form can meet: only a file can be missing, and the main
\* input is not opened by getline
outcomeOf(form, outcome) ==
    CASE form = "plain" -> outcome \in {"line", "EOF", "scanErr"}
      [] form = "file" -> TRUE
      [] OTHER -> outcome # "missing"

\* eval(GetlineExpr) returning -1 at the end of the input
getlineResult_EOFIsError(outcome) ==
    CASE outcome = "line" -> 1
      [] outcome \in {"EOF", "scanErr", "missing"} -> -1
      [] OTHER -> 2

\* eval(GetlineExpr): the number the expression evaluates to, 2 for none
getlineResult(outcome) ==
    CASE outcome = "line" -> 1
      [] outcome = "EOF" -> 0
      [] outcome \in {"scanErr", "missing"} -> -1
      [] OTHER -> 2

\* execute(PrintStmt), to the standard output and to "/dev/stderr": the sinks
\* buffer the output
printLine ==
    /\ outBuffered' = TRUE
    /\ getlineOp' = NoGetline
    /\ UNCHANGED errBuffered
    /\ UNCHANGED <<fieldVars, inputVars, globalX>>
    /\ UNCHANGED notGetline

printLineError ==
    /\ errBuffered' = TRUE
    /\ getlineOp' = NoGetline
    /\ UNCHANGED outBuffered
    /\ UNCHANGED <<fieldVars, inputVars, globalX>>
    /\ UNCHANGED notGetline

\* eval(GetlineExpr): a getline of the given form and target that meets the
\* given outcome and, with outcome "line", reads the line l (the counters NR
\* and FNR that nextLine keeps are the subject of the record counters part)
evalGetline(form, tgt, outcome, l) ==
    /\ outcomeOf(form, outcome)
    /\ outBuffered' = flushed(form, outBuffered)
    /\ errBuffered' = flushed(form, errBuffered)
    /\ UNCHANGED inputVars
    /\ IF outcome # "line"
       THEN /\ getlineOp' = [NoGetline EXCEPT !.form = form, !.target = tgt[1],
                                !.index = tgt[2], !.outcome = outcome,
                                !.result = getlineResult(outcome),
                                !.err = IF outcome = "openErr" THEN "E1" ELSE "",
                                !.pending = (outBuffered \/ errBuffered)]
            /\ UNCHANGED <<fieldVars, globalX>>
       ELSE /\ CASE tgt[1] = "none" ->
                      /\ setLine(l, FALSE)
                      /\ fieldOp' = [NoOp EXCEPT !.op = "getline"]
                      /\ UNCHANGED <<fieldSep, outputFieldSep, globalX>>
                 [] tgt[1] = "var" ->
                      /\ globalX' = numStr(l)
                      /\ UNCHANGED fieldVars
                 [] OTHER ->
                      /\ setFieldVars(tgt[2], toString(numStr(l)))
                      /\ UNCHANGED globalX
            /\ getlineOp' = [NoGetline EXCEPT !.form = form, !.target = tgt[1],
                                !.index = tgt[2], !.outcome = outcome,
                                !.result = IF tgt[1] = "field" /\ tgt[2] < 0
                                           THEN 2 ELSE 1,
                                !.err = IF tgt[1] = "field" /\ tgt[2] < 0
                                        THEN "field index negative" ELSE "",
                                !.l = l,
                                !.pending = (outBuffered \/ errBuffered)]
    /\ UNCHANGED notGetline

\* nothing was printed, no getline was evaluated
IoIdle ==
    /\ outBuffered = FALSE
    /\ errBuffered = FALSE
    /\ getlineOp = NoGetline

GetlineNext ==
    \/ printLine
    \/ printLineError
    \/ \E form \in Forms, tgt \in Targets, outcome \in Outcomes, l \in GetLines :
          evalGetline(form, tgt, outcome, l)

----------------------------------------------------------------------------
(* The regex cache *)

\* Regex sources are numbered; 0 is a regex that does not compile.  The
\* sources 1 .. maxCachedRegexes - 2 are those a long run has compiled
\* already; the others are compiled by the steps.
Regexes == {0} \cup ((maxCachedRegexes - 1) .. (maxCachedRegexes + MaxExtra))

NoRegexOp == [regex |-> -1, re |-> <<>>, err |-> "", cached |-> FALSE]

\* regexp.Compile(regex): the compiled regex, or the error
regexpCompile(regex) ==
    IF regex > 0 THEN [re |-> <<"regexp", regex>>, err |-> ""]
    ELSE [re |-> <<>>, err |-> "invalid regex"]

\* compileRegex caching one regex beyond maxCachedRegexes
cacheHasRoom_OneMore(cache) == Cardinality(DOMAIN cache) <= maxCachedRegexes

\* compileRegex: len(p.regexCache) < maxCachedRegexes
cacheHasRoom(cache) == Cardinality(DOMAIN cache) < maxCachedRegexes

\* compileRegex(regex): the cached regex, or the regex compiled and cached
\* while the cache has room
compileRegex(regex) ==
    /\ IF regex \in DOMAIN regexCache
       THEN /\ regexOp' = [regex |-> regex, re |-> regexCache[regex], err |-> "",
                           cached |-> TRUE]
            /\ UNCHANGED regexCache
       ELSE LET c == regexpCompile(regex)
            IN  IF c.err # ""
                THEN /\ regexOp' = [regex |-> regex, re |-> <<>>, err |-> c.err,
                                    cached |-> FALSE]
                     /\ UNCHANGED regexCache
                ELSE /\ regexOp' = [regex |-> regex, re |-> c.re, err |-> "",
                                    cached |-> FALSE]
                     /\ regexCache' =
                          IF cacheHasRoom(regexCache)
                          THEN [k \in DOMAIN regexCache \cup {regex} |->
                                  IF k = regex THEN c.re ELSE regexCache[k]]
                          ELSE regexCache
    /\ UNCHANGED notCache

\* the cache after the n regexes 1 .. n were compiled
cacheOf(n) == [k \in 1..n |-> regexpCompile(k).re]

\* execInit: p.regexCache = make(map[string]*regexp.Regexp, 10)
CacheIdle ==
    /\ regexCache = cacheOf(0)
    /\ regexOp = NoRegexOp

CacheNext == \E regex \in Regexes : compileRegex(regex)

----------------------------------------------------------------------------
(* Loops *)

\* what the statements of a body do: return nil, errBreak, errContinue or a
\* runtime error
Leaves == {"ok", "break", "continue", "E1"}

\* a leaf statement inside d nested statements, alternately an if whose
\* condition is true and a block
RECURSIVE Nest(_, _)
Nest(leaf, d) ==
    IF d = 0 THEN <<leaf>>
    ELSE IF d % 2 = 1 THEN <<"if", TRUE, <<Nest(leaf, d - 1), <<"ok">>>>>>
    ELSE <<"block", <<Nest(leaf, d - 1), <<"ok">>>>>>

\* the bodies of the loops: a statement, the nested leaf, a statement; and a
\* body whose continue or break sits in an if that is not taken
Bodies ==
    {<< <<"ok">>, Nest(l, d), <<"ok">> >> : l \in Leaves, d \in 0..MaxDepth}
        \cup {<< <<"if", FALSE, << <<l>> >> >>, <<"ok">> >> : l \in {"break", "continue"}}

\* executes(stmts) and execute(stmt): the error returned, that of the first
\* statement that returns one
RECURSIVE executes(_), execute(_)
executes(stmts) ==
    IF stmts = <<>> THEN "nil"
    ELSE LET err == execute(Head(stmts))
         IN  IF err # "nil" THEN err ELSE executes(Tail(stmts))

execute(s) ==
    CASE s[1] = "if" -> IF s[2] THEN executes(s[3]) ELSE "nil"
      [] s[1] = "block" -> executes(s[2])
      [] s[1] = "ok" -> "nil"
      [] OTHER -> s[1]

\* the loop statements: for (pre; cond; post) with each part present or not,
\* and do ... while (cond)
LoopStmts ==
    {[kind |-> "for", pre |-> a, cond |-> b, post |-> c] :
        a \in BOOLEAN, b \in BOOLEAN, c \in BOOLEAN}
        \cup {[kind |-> "doWhile", pre |-> FALSE, cond |-> TRUE, post |-> FALSE]}

NoStmt == [kind |-> "none", pre |-> FALSE, cond |-> FALSE, post |-> FALSE]

\* what eval returns for a condition and execute for a pre- or post-statement
CondVals == {"T", "F", "E1"}
StepErrs == {"nil", "E1"}

\* execute returns err: the loop is over
loopReturn(err) ==
    /\ stmtAt' = "done"
    /\ stmtRet' = err

\* ForStmt: the top of the for { } loop, the condition if there is one
forTop == IF stmt.cond THEN "cond" ELSE "body"

\* execute(ForStmt): the pre-statement, if any
forPre(err) ==
    /\ stmt.kind = "for" /\ stmtAt = "pre"
    /\ IF stmt.pre /\ err # "nil"
       THEN loopReturn(err)
       ELSE stmtAt' = forTop /\ UNCHANGED stmtRet
    /\ UNCHANGED <<stmt, nCond, nBody, nPost, bodyErr>>
    /\ UNCHANGED notStmt

\* execute(ForStmt): the condition
forCond(v) ==
    /\ stmt.kind = "for" /\ stmtAt = "cond"
    /\ nCond' = nCond + 1
    /\ CASE v = "T" -> stmtAt' = "body" /\ UNCHANGED stmtRet
         [] v = "F" -> loopReturn("nil")
         [] OTHER -> loopReturn(v)
    /\ UNCHANGED <<stmt, nBody, nPost, bodyErr>>
    /\ UNCHANGED notStmt

\* ForStmt: where a body that ended with errContinue goes on, were it the
\* condition
forAfterBody_Cond(s) == forTop

\* ForStmt: after a body that returned nil or errContinue the post-statement
\* runs, if there is one
forAfterBody(s) == IF s.post THEN "post" ELSE forTop

\* execute(ForStmt): err := p.executes(s.Body)
forBody(body) ==
    /\ stmt.kind = "for" /\ stmtAt = "body"
    /\ nBody < MaxIter
    /\ nBody' = nBody + 1
    /\ bodyErr' = executes(body)
    /\ LET err == executes(body)
       IN  CASE err = "break" -> loopReturn("nil")
             [] err \notin {"nil", "continue"} -> loopReturn(err)
             [] OTHER -> stmtAt' = forAfterBody(stmt) /\ UNCHANGED stmtRet
    /\ UNCHANGED <<stmt, nCond, nPost>>
    /\ UNCHANGED notStmt

\* execute(ForStmt): the post-statement
forPost(err) ==
    /\ stmt.kind = "for" /\ stmtAt = "post"
    /\ nPost' = nPost + 1
    /\ IF err # "nil"
       THEN loopReturn(err)
       ELSE stmtAt' = forTop /\ UNCHANGED stmtRet
    /\ UNCHANGED <<stmt, nCond, nBody, bodyErr>>
    /\ UNCHANGED notStmt

\* DoWhileStmt: a body that ended with errContinue goes on with the
\* condition
doAfterContinue_Cond == "cond"

\* DoWhileStmt: if err == errContinue { continue } restarts the for { } loop,
\* whose first statement is the body
doAfterContinue == "body"

\* execute(DoWhileStmt): err := p.executes(s.Body)
doBody(body) ==
    /\ stmt.kind = "doWhile" /\ stmtAt = "body"
    /\ nBody < MaxIter
    /\ nBody' = nBody + 1
    /\ bodyErr' = executes(body)
    /\ LET err == executes(body)
       IN  CASE err = "break" -> loopReturn("nil")
             [] err = "continue" -> stmtAt' = doAfterContinue /\ UNCHANGED stmtRet
             [] err # "nil" -> loopReturn(err)
             [] OTHER -> stmtAt' = "cond" /\ UNCHANGED stmtRet
    /\ UNCHANGED <<stmt, nCond, nPost>>
    /\ UNCHANGED notStmt

\* execute(DoWhileStmt): the condition
doCond(v) ==
    /\ stmt.kind = "doWhile" /\ stmtAt = "cond"
    /\ nCond' = nCond + 1
    /\ CASE v = "T" -> stmtAt' = "body" /\ UNCHANGED stmtRet
         [] v = "F" -> loopReturn("nil")
         [] OTHER -> loopReturn(v)
    /\ UNCHANGED <<stmt, nBody, nPost, bodyErr>>
    /\ UNCHANGED notStmt

\* no loop statement runs
StmtIdle ==
    /\ stmt = NoStmt /\ stmtAt = "idle" /\ stmtRet = ""
    /\ nCond = 0 /\ nBody = 0 /\ nPost = 0 /\ bodyErr = ""

\* execute is called with a loop statement
StmtStart ==
    /\ stmt \in LoopStmts
    /\ stmtAt = (IF stmt.kind = "for" THEN "pre" ELSE "body")
    /\ stmtRet = ""
    /\ nCond = 0 /\ nBody = 0 /\ nPost = 0 /\ bodyErr = ""

LoopNext ==
    \/ \E err \in StepErrs : forPre(err)
    \/ \E v \in CondVals : forCond(v)
    \/ \E body \in Bodies : forBody(body)
    \/ \E err \in StepErrs : forPost(err)
    \/ \E body \in Bodies : doBody(body)
    \/ \E v \in CondVals : doCond(v)

----------------------------------------------------------------------------
(* Specifications: one part runs, the others stay as execInit left them *)

Rest == InputIdle /\ ExprIdle /\ IoIdle /\ CacheIdle /\ StmtIdle

FieldInit == FieldIdle /\ ArrayIdle /\ RunIdle /\ Rest

SpecField == FieldInit /\ [][FieldNext]_vars

ArrayInit == ArrayIdle /\ FieldIdle /\ RunIdle /\ Rest

SpecArray == ArrayInit /\ [][ArrayNext]_vars

RunInit == RunStart /\ FieldIdle /\ ArrayIdle /\ Rest

SpecRun == RunInit /\ [][RunNext]_vars

InputInit == InputIdle /\ FieldIdle /\ ArrayIdle /\ RunIdle /\ ExprIdle /\ IoIdle
                /\ CacheIdle /\ StmtIdle

SpecInput == InputInit /\ [][InputNext]_vars

\* a fresh interp, as execInit leaves it
FreshInit == FieldIdle /\ ArrayIdle /\ RunIdle /\ Rest

ExprInit == FreshInit

SpecExpr == ExprInit /\ [][ExprNext]_vars

AugInit == FreshInit

SpecAug == AugInit /\ [][AugNext]_vars

FieldExprInit == FreshInit

SpecFieldExpr == FieldExprInit /\ [][FieldExprNext]_vars

IncrInit == FreshInit

SpecIncr == IncrInit /\ [][IncrNext]_vars

IndexInit == FreshInit

SpecIndex == IndexInit /\ [][IndexNext]_vars

GetlineInit == FreshInit

SpecGetline == GetlineInit /\ [][GetlineNext]_vars

\* a fresh interp, or one that has compiled maxCachedRegexes - 2 regexes
CacheInit ==
    /\ FieldIdle /\ ArrayIdle /\ RunIdle /\ InputIdle /\ ExprIdle /\ IoIdle /\ StmtIdle
    /\ regexCache \in {cacheOf(0), cacheOf(maxCachedRegexes - 2)}
    /\ regexOp = NoRegexOp

SpecCache == CacheInit /\ [][CacheNext]_vars

LoopInit ==
    /\ FieldIdle /\ ArrayIdle /\ RunIdle /\ InputIdle /\ ExprIdle /\ IoIdle /\ CacheIdle
    /\ StmtStart

SpecLoop == LoopInit /\ [][LoopNext]_vars

----------------------------------------------------------------------------
(* Claims about the record/field engine *)

\* C1: in the state right after a successful assignment to $i (i >= 1) or to
\* NF, $0 is the fields joined with OFS and NF is the number of fields.
C1_JoinAfterWrite ==
    (fieldOp.op \in {"setField", "setNF"} /\ fieldOp.err = ""
        /\ (fieldOp.op = "setField" => fieldOp.index >= 1))
    => /\ line = Join(fields, outputFieldSep)
       /\ numFields = Len(fields)

\* C1 witness: $2 was assigned on a record of one field, with OFS "-"
C1_Witness ==
    /\ fieldOp.op = "setField" /\ fieldOp.index = 2 /\ fieldOp.err = ""
    /\ outputFieldSep = <<"-">>
    /\ fields = << <<"a">>, <<"x">> >>
    /\ line = <<"a", "-", "x">>

\* C2: assigning FS while a record is current does not change how that
\* record is split: once split (and not written since), its fields and NF are
\* those of splitting it with the FS in effect when the record was set.
C2_FSAppliesToNextRecord ==
    (haveFields /\ ~dirty)
    => /\ fields = splitRecord(line, readFS)
       /\ numFields = Len(splitRecord(line, readFS))

----------------------------------------------------------------------------
(* Claims about ExecProgram *)

\* C4: the error ExecProgram returns is never a control-flow sentinel
\* (errBreak, errContinue, errNext, errExit, a returnValue), whatever
\* statements the BEGIN blocks, the action bodies and the END blocks hold.
C4_NoSentinelLeak ==
    pc = "done" => retErr \notin Sentinels

\* the status the exit statements executed so far ask for
lastExitValue == IF lastExitExpr = <<>> THEN 0 ELSE ToInt(lastExitExpr[1])

\* C6: a run that ends without a runtime error returns a nil error and the
\* truncated value of the most recently executed exit expr (0 if there was
\* none; an exit without expression changes nothing).
C6_ExitStatus ==
    (pc = "done" /\ raised = "")
    => /\ retErr = "nil"
       /\ retStatus = lastExitValue

\* C7: after next ran in the body of action i, the body is left, no pattern
\* or body of an action j > i was evaluated for the record, inRange is as it
\* was, and the next step reads the next record (or leaves the record loop at
\* the end of the input).
C7_NextSkipsRest ==
    /\ [](skipFrom # 0 =>
            /\ pc = "actions"
            /\ touched \subseteq 1..skipFrom
            /\ inRange = inRangeAtNext)
    /\ [][skipFrom # 0 =>
            \/ pc' = "pattern" /\ act' = 1 /\ loopRead' /\ touched' = {}
            \/ pc' \in {"end", "done"} /\ eof'
            \/ pc' = "done" /\ retErr' = ReadError]_vars

\* C7 witness: next ran in the body of action 1 while the range of action 2,
\* opened by an earlier record, stays open
C7_Witness ==
    /\ skipFrom = 1 /\ nActions = 2 /\ patterns[2] = 2
    /\ inRange[2] /\ pc = "actions"

\* C8 as stated: after exit in a BEGIN block no further BEGIN block runs, no
\* record is read, no action runs and the END blocks run; after exit in an
\* action body no further record is read and the END blocks run; after exit
\* in an END block no further END block runs; a program with neither actions
\* nor END blocks never reads input.
C8_ExitAtBoundaries ==
    /\ exitBegin => pc \in {"end", "done"} /\ ~loopRead /\ touched = {}
    /\ exitAction => pc \in {"end", "done"}
    /\ (exitBegin \/ exitAction) => ~readAfterExit
    /\ ((exitBegin \/ exitAction) /\ nEnd > 0) => endRun >= 1
    /\ ((exitBegin \/ exitAction) /\ pc = "done" /\ retErr = "nil" /\ ~exitEnd)
          => endRun = nEnd
    /\ exitEnd => pc = "done"
    /\ (nActions = 0 /\ nEnd = 0) => ~anyRead

\* C8 amended: the same, of the records the record loop reads: after exit in
\* a BEGIN block or in an action body the record loop reads no (further)
\* record, and a program with neither actions nor END blocks never enters the
\* record loop (a getline in a BEGIN or END block still reads a record).
C8_ExitAtBoundariesLoop ==
    /\ exitBegin => pc \in {"end", "done"} /\ ~loopRead /\ touched = {}
    /\ exitAction => pc \in {"end", "done"}
    /\ ((exitBegin \/ exitAction) /\ nEnd > 0) => endRun >= 1
    /\ ((exitBegin \/ exitAction) /\ pc = "done" /\ retErr = "nil" /\ ~exitEnd)
          => endRun = nEnd
    /\ exitEnd => pc = "done"
    /\ (nActions = 0 /\ nEnd = 0) => ~loopRead /\ pc \notin {"actions", "pattern", "body"}

\* C8 witness: exit ran in the first of two BEGIN blocks of a program with
\* actions; both END blocks ran, one reading a record with getline
C8_Witness ==
    /\ exitBegin /\ nBegin = 2 /\ nActions = 2 /\ nEnd = 2
    /\ pc = "done" /\ retErr = "nil" /\ endRun = 2
    /\ readAfterExit /\ ~loopRead

\* C9: an error raised by a pattern or a statement ends the run at once:
\* ExecProgram has returned that very error with status 0 (so no statement,
\* record or END block follows it).
C9_ErrorEndsRun ==
    raised \in Errors
    => /\ pc = "done"
       /\ retErr = raised
       /\ retStatus = 0

\* C9 witness: an END block raised E2 after exit 3.5 had set the status
C9_Witness ==
    /\ raised = "E2" /\ retErr = "E2" /\ pc = "done"
    /\ exitStatus = 3 /\ retStatus = 0 /\ endRun = 2

\* C6 apart from the sentinels C4 is about
C6_ExitStatusNoLeak ==
    (pc = "done" /\ raised = "" /\ retErr \notin Sentinels)
    => /\ retErr = "nil"
       /\ retStatus = lastExitValue

----------------------------------------------------------------------------
(* Claims about arrays *)

Count(seq, k) == Cardinality({i \in 1..Len(seq) : seq[i] = k})

\* C3: a for (k in a) loop that runs to its end visits every key present at
\* loop entry exactly once, deleted or not, and no key added by the body.
C3_ForInSnapshot ==
    (loopPc = "done" /\ loopEnd = "exhausted")
    => /\ \A k \in entryKeys : Count(visited, k) = 1
       /\ \A i \in 1..Len(visited) : visited[i] \in entryKeys

\* C5: k in A leaves every array unchanged; a reference A[k] to a missing key
\* inserts k with the null value (so that k in A is true afterwards) and
\* changes nothing else.
C5_InDoesNotInsert ==
    [][ /\ arrayOp'.op = "in" => arrays' = arrays
        /\ (arrayOp'.op = "get" /\ ~inValue(arrays, arrayOp'.array, arrayOp'.key))
           => /\ inValue(arrays', arrayOp'.array, arrayOp'.key)
              /\ arrays'[arrayOp'.array][arrayOp'.key] = null
              /\ arrayOp'.ret = null
              /\ \A a \in ArrayIds : \A k \in DOMAIN arrays[a] :
                    inValue(arrays', a, k) /\ arrays'[a][k] = arrays[a][k]
              /\ \A a \in ArrayIds : DOMAIN arrays'[a] \subseteq
                    DOMAIN arrays[a] \cup (IF a = arrayOp'.array THEN {arrayOp'.key} ELSE {})
      ]_vars

\* C5 witness: "y" was referenced in array 2 where it was missing and is now
\* there with the null value, beside a key that was assigned
C5_Witness ==
    /\ arrayOp = [op |-> "get", array |-> 2, key |-> "y", ret |-> null]
    /\ DOMAIN arrays[2] = {"x", "y"}
    /\ arrays[2]["y"] = null /\ arrays[2]["x"] = str(<<"x">>)

----------------------------------------------------------------------------
(* Claims about the record counters *)

\* C10 as stated: NR equals FNR at every point while the first input file is
\* being read, and NR never decreases.
C10_NRMonotone ==
    /\ [](filesOpened <= 1 => getVarNR = getVarFNR)
    /\ [][lineNum' >= lineNum]_vars

\* C10 amended: while the first input file is being read NR equals FNR as
\* long as neither was assigned, and NR never decreases except by an
\* assignment to NR.
C10_NRMonotoneUnlessAssigned ==
    /\ []((filesOpened <= 1 /\ ~nrAssigned) => getVarNR = getVarFNR)
    /\ [][inputOp' # "setNR" => lineNum' >= lineNum]_vars

\* C10 witness: two records of the first file were read, nothing assigned
C10_Witness ==
    /\ filesOpened = 1 /\ ~nrAssigned
    /\ lineNum = 2 /\ fileLineNum = 2 /\ inputOp = "line"

----------------------------------------------------------------------------
(* Claims about assignments to NF and to fields *)

\* the record state an error must leave alone
recordVars == <<line, lineIsTrueStr, fields, fieldsIsTrueStr, numFields, haveFields>>

\* C13: NF = n with 0 <= n <= 1000000 keeps the first min(n, old NF) fields,
\* drops the fields beyond n, pads with empty fields up to n and makes $0 the
\* fields joined with OFS; NF = 0 makes $0 empty.
C13_SetNF ==
    [][(fieldOp'.op = "setNF" /\ fieldOp'.err = "") =>
          LET old == ensureFields.fields
              n == fieldOp'.index
          IN  /\ n >= 0 /\ n <= maxFieldIndex
              /\ numFields' = n
              /\ Len(fields') = n
              /\ \A i \in 1..n :
                    fields'[i] = IF i <= Len(old) THEN old[i] ELSE <<>>
              /\ line' = Join(fields', outputFieldSep)
              /\ (n = 0 => line' = <<>>)]_vars

\* C13 witness: NF = 2 on a record of one field
C13_Witness ==
    /\ fieldOp.op = "setNF" /\ fieldOp.index = 2 /\ fieldOp.err = ""
    /\ fields = << <<"a">>, <<>> >>
    /\ line = <<"a", " ">>

\* C14: $i = v with i > NF keeps fields 1..NF, makes fields NF+1..i-1 empty,
\* sets $i to v and NF to i; with 1 <= i <= NF only $i changes and NF stays;
\* in both cases $0 is the fields joined with OFS.
C14_SetField ==
    [][(fieldOp'.op = "setField" /\ fieldOp'.err = "" /\ fieldOp'.index >= 1) =>
          LET old == ensureFields.fields
              oldNF == ensureFields.numFields
              i == fieldOp'.index
          IN  /\ numFields' = (IF i > oldNF THEN i ELSE oldNF)
              /\ Len(fields') = numFields'
              /\ \A j \in 1..Len(fields') :
                    fields'[j] = IF j = i THEN fieldOp'.val
                                 ELSE IF j <= Len(old) THEN old[j] ELSE <<>>
              /\ line' = Join(fields', outputFieldSep)]_vars

\* C14 witness: $2 = "x" on a record that has no field
C14_Witness ==
    /\ fieldOp.op = "setField" /\ fieldOp.index = 2 /\ fieldOp.err = ""
    /\ fields = << <<>>, <<"x">> >>
    /\ numFields = 2

\* C16 as stated: a field index greater than 1000000 is an error when the
\* field is read and when it is assigned.
C16_HugeIndex ==
    (fieldOp.op \in {"getField", "setField"} /\ fieldOp.index > maxFieldIndex)
    => fieldOp.err # ""

\* C16 amended: assigning a field with an index greater than 1000000 is an
\* error; reading one is not, it yields the empty string.
C16_HugeIndexAssigned ==
    /\ (fieldOp.op = "setField" /\ fieldOp.index > maxFieldIndex)
       => fieldOp.err = "field index too large"
    /\ (fieldOp.op = "getField" /\ fieldOp.index > maxFieldIndex)
       => /\ fieldOp.err = ""
          /\ fieldOp.val = <<>>
          /\ fieldOp.kind = "str"

\* C16 witness: $1000001 was read from a record of two fields
C16_Witness ==
    /\ fieldOp.op = "getField" /\ fieldOp.index = maxFieldIndex + 1
    /\ fieldOp.err = ""
    /\ numFields = 2 /\ haveFields

\* the integer a number (in tenths) is truncated to
truncated(v) == IF v < 0 THEN -((-v) \div 10) ELSE v \div 10

\* C17 as stated: NF = v with v negative or greater than 1000000 fails and
\* leaves NF, the fields and $0 as they were.
C17_BadNF ==
    [][\A v \in NFVals :
          (setVarNF(v) /\ (v < 0 \/ v > 10 * maxFieldIndex))
          => /\ fieldOp'.err # ""
             /\ UNCHANGED recordVars]_vars

\* C17 amended: NF = v fails, leaving NF, the fields and $0 as they were, when
\* v truncated to an integer is negative or greater than 1000000, and only
\* then.
C17_BadNFTruncated ==
    [][\A v \in NFVals :
          setVarNF(v)
          => IF truncated(v) < 0 \/ truncated(v) > maxFieldIndex
             THEN /\ fieldOp'.err # ""
                  /\ UNCHANGED recordVars
             ELSE fieldOp'.err = ""]_vars

\* C17 witness: NF = -1 failed on a record of two fields
C17_Witness ==
    /\ fieldOp.op = "setNF" /\ fieldOp.index = -1
    /\ fieldOp.err = "NF set to negative value"
    /\ numFields = 2 /\ haveFields

----------------------------------------------------------------------------
(* Claims about field expressions *)

\* C15: reading, assigning, incrementing or augmented-assigning a field with
\* a negative index fails with "field index negative" and leaves $0, the
\* fields and NF as they were.
C15_NegativeIndex ==
    [][(fieldOp'.op \in {"getField", "setField", "augAssign"} /\ fieldOp'.index < 0)
          => /\ fieldOp'.err = "field index negative"
             /\ UNCHANGED recordVars]_vars

\* C15 witness: $(-1) += r failed on a record of two fields
C15_Witness ==
    /\ fieldOp.op = "augAssign" /\ fieldOp.index = -1
    /\ fieldOp.err = "field index negative"
    /\ numFields = 2 /\ fields[2] = <<"x">>

----------------------------------------------------------------------------
(* Claims about getline *)

----------------------------------------------------------------------------
(* Claims about expressions *)

\* C18: l / r and l % r with a right operand whose number is 0 yield no
\* value and the error "division by zero" ("division by zero in mod"), and
\* x /= r, x %= r leave the target (a variable, an array element, a field)
\* with the value it had.
C18_DivisionByZero ==
    [][\A op \in {"/", "%"}, r \in AugRight :
          valueNum(r) = 0 =>
            /\ evalBinary(op, globalX, r) =
                  [v |-> null,
                   err |-> IF op = "/" THEN "division by zero"
                           ELSE "division by zero in mod"]
            /\ augAssignVar(op, r)
                  => globalX' = globalX /\ exprOp'.err # ""
            /\ augAssignArray(1, "x", op, r)
                  => /\ arrays'[1]["x"] = (IF "x" \in DOMAIN arrays[1]
                                           THEN arrays[1]["x"] ELSE null)
                     /\ \A k \in DOMAIN arrays[1] : arrays'[1][k] = arrays[1][k]
                     /\ arrayOp'.op = "augAssignFails"
            /\ augAssignField(1, op, r)
                  => /\ line' = line
                     /\ lineIsTrueStr' = lineIsTrueStr
                     /\ fields' = ensureFields.fields
                     /\ numFields' = ensureFields.numFields
                     /\ fieldOp'.err # ""]_vars

\* C18 witness: x /= 0 failed with x == 2
C18_Witness ==
    /\ exprOp.op = "/" /\ exprOp.err = "division by zero"
    /\ globalX = num(2)

\* C19: a comparison is made on strings when an operand is a true string and
\* on numbers otherwise; != is the negation of ==, l > r is r < l and l >= r
\* is r <= l.
C19_Comparison ==
    exprOp.op \in CompareOps =>
        LET l == exprOp.l
            r == exprOp.r
            ls == toString(l)
            rs == toString(r)
            onStrings == valueIsTrueStr(l) \/ valueIsTrueStr(r)
            less == IF onStrings THEN StrLess(ls, rs) ELSE valueNum(l) < valueNum(r)
            equal == IF onStrings THEN ls = rs ELSE valueNum(l) = valueNum(r)
            expected == CASE exprOp.op = "==" -> equal
                          [] exprOp.op = "!=" -> ~equal
                          [] exprOp.op = "<" -> less
                          [] exprOp.op = "<=" -> less \/ equal
                          [] exprOp.op = ">" -> ~less /\ ~equal
                          [] exprOp.op = ">=" -> ~less
        IN  /\ exprOp.v = boolean(expected)
            /\ evalBinary("!=", l, r).v = boolean(~valueBoolean(evalBinary("==", l, r).v))
            /\ evalBinary(">", l, r).v = evalBinary("<", r, l).v
            /\ evalBinary(">=", l, r).v = evalBinary("<=", r, l).v

\* C19 witness: "9" < 10 with a true string on the left is made on strings
C19_Witness ==
    /\ exprOp.op = "<"
    /\ exprOp.l = str(<<"9">>) /\ exprOp.r = numStr(<<"1", "0">>)
    /\ exprOp.v = num(0)

\* C20: && and || evaluate the right operand, with its side effects, only if
\* the left one is true (&&) or false (||), and the result is the number 0 or
\* 1 of the conjunction or disjunction of the truth values.
C20_ShortCircuit ==
    /\ [](exprOp.op \in LogicalOps =>
            LET lb == valueBoolean(exprOp.l)
                rb == valueBoolean(exprOp.r)
            IN  /\ exprOp.right = (IF exprOp.op = "&&" THEN lb ELSE ~lb)
                /\ exprOp.err = "" =>
                      /\ exprOp.v \in {num(0), num(1)}
                      /\ exprOp.v = boolean(IF exprOp.op = "&&" THEN lb /\ rb
                                            ELSE lb \/ rb))
    /\ [][(exprOp'.op \in LogicalOps /\ ~exprOp'.right) => globalX' = globalX]_vars

\* C20 witness: 2 && (x = "x") evaluated its right operand and is 1
C20_Witness ==
    /\ exprOp.op = "&&" /\ exprOp.l = num(2) /\ exprOp.r = str(<<"x">>)
    /\ exprOp.right /\ exprOp.v = num(1)
    /\ globalX = str(<<"x">>)

----------------------------------------------------------------------------
(* Claims about the tags of the record and the reads of fields *)

\* C24: the string tags follow the origin of the record: right after a record
\* is read $0 and every field of its split are numeric strings; after $i = v
\* (i >= 1) the field assigned, the fields padded in and $0 are true strings;
\* after $0 = v, $0 is the true string v; and a read of $0 or of a field
\* $1..$NF yields the kind its tag says.
C24_StringTags ==
    /\ [](fieldOp.op = "readRecord" =>
            /\ ~lineIsTrueStr
            /\ \A j \in 1..Len(ensureFields.fields) : ~ensureFields.fieldsIsTrueStr[j])
    /\ [](fieldOp.op = "getField" /\ fieldOp.err = "" =>
            IF fieldOp.index = 0
            THEN fieldOp.kind = (IF lineIsTrueStr THEN "str" ELSE "numStr")
            ELSE fieldOp.index <= Len(fields) =>
                    fieldOp.kind = (IF fieldsIsTrueStr[fieldOp.index]
                                    THEN "str" ELSE "numStr"))
    /\ [][(fieldOp'.op = "setField" /\ fieldOp'.err = "") =>
            IF fieldOp'.index = 0
            THEN lineIsTrueStr' /\ line' = fieldOp'.val
            ELSE /\ lineIsTrueStr'
                 /\ \A j \in 1..fieldOp'.index :
                       (j = fieldOp'.index \/ j > Len(ensureFields.fields))
                       => fieldsIsTrueStr'[j]
                 /\ \A j \in 1..Len(ensureFields.fields) :
                       j # fieldOp'.index
                       => fieldsIsTrueStr'[j] = ensureFields.fieldsIsTrueStr[j]]_vars

\* C24 witness: $2 = "x" on the record "" padded $1 in; both are true strings
\* and so is $0
C24_Witness ==
    /\ fieldOp.op = "setField" /\ fieldOp.index = 2 /\ fieldOp.err = ""
    /\ fields = << <<>>, <<"x">> >>
    /\ fieldsIsTrueStr = <<TRUE, TRUE>>
    /\ lineIsTrueStr

\* C29: reading $i with i > NF yields the empty string and leaves NF, the
\* fields (as the split gives them) and $0 as they were.
C29_ReadBeyondNF ==
    [][\A i \in FieldIdx :
          (getField(i) /\ i > ensureFields.numFields)
          => /\ fieldOp'.err = ""
             /\ fieldOp'.val = <<>>
             /\ fieldOp'.kind = "str"
             /\ line' = line
             /\ lineIsTrueStr' = lineIsTrueStr
             /\ fields' = ensureFields.fields
             /\ fieldsIsTrueStr' = ensureFields.fieldsIsTrueStr
             /\ numFields' = ensureFields.numFields]_vars

\* C29 witness: $2 was read from the one-field record "x"
C29_Witness ==
    /\ fieldOp.op = "getField" /\ fieldOp.index = 2 /\ fieldOp.err = ""
    /\ fieldOp.val = <<>>
    /\ haveFields /\ numFields = 1 /\ fields = << <<"x">> >>
    /\ line = <<"x">>

\* C30: whatever records were read and whatever fields and NF were assigned,
\* fields and fieldsIsTrueStr have the same length, also once the record is
\* split, and NF is that length.
C30_FlagsParallel ==
    /\ Len(fields) = Len(fieldsIsTrueStr)
    /\ Len(ensureFields.fields) = Len(ensureFields.fieldsIsTrueStr)
    /\ haveFields => numFields = Len(fields)

\* C30 witness: NF = 1 cut a record of two fields whose $1 had been assigned
C30_Witness ==
    /\ fieldOp.op = "setNF" /\ fieldOp.index = 1 /\ fieldOp.err = ""
    /\ fields = << <<"x">> >>
    /\ fieldsIsTrueStr = <<TRUE>>
    /\ dirty

----------------------------------------------------------------------------
(* Claims about range patterns *)

\* C27: a range pattern matches a record when the range is open or start
\* evaluates to true on it, and the range is open afterwards unless end
\* evaluates to true on that record; start is evaluated only while the range
\* is closed and end only while it is open (or just opened), so only those
\* evaluations can fail; the ranges of the other actions are left as they
\* are, and nothing but the evaluation of its own pattern (or the end of the
\* record loop) changes the state of a range.
C27_RangePattern ==
    /\ [][\A start \in PatternVals, stop \in PatternVals :
            (evalPattern(start, stop) /\ patterns[act] = 2) =>
              LET open == inRange[act]
                  matched == open \/ start = "T"
                  err == IF ~open /\ start \in Errors THEN start
                         ELSE IF matched /\ stop \in Errors THEN stop
                         ELSE "nil"
              IN  IF err # "nil"
                  THEN raised' = err /\ pc' = "done"
                  ELSE /\ raised' = raised
                       /\ (pc' = "body" /\ act' = act) = matched
                       /\ inRange'[act] = (matched /\ stop # "T")
                       /\ \A j \in 1..nActions :
                             j # act => inRange'[j] = inRange[j]]_vars
    /\ [][inRange' # inRange =>
            \/ pc = "pattern" /\ patterns[act] = 2
            \/ pc' \in {"end", "done"}]_vars

\* C27 witness: of two range actions the first is open while the second,
\* opened and closed by the same record, runs its body
C27_Witness ==
    /\ patterns = <<2, 2>>
    /\ pc = "body" /\ act = 2
    /\ inRange = <<TRUE, FALSE>>

----------------------------------------------------------------------------
(* Claims about execInit *)

\* C23: a config with an odd-length Vars or Environ, or with a Vars entry
\* whose value is rejected, makes execInit fail, and ExecProgram then returns
\* status 0 and the error at once: no BEGIN, pattern, action or END statement
\* has run and no record was read.
C23_ConfigError ==
    /\ [](\A cfg \in Configs :
            (cfg.vars % 2 = 1 \/ cfg.environ % 2 = 1 \/ cfg.rejected)
            => execInitErr(cfg) \in ConfigErrors)
    /\ [][\A cfg \in Configs :
            (execInit(cfg) /\ execInitErr(cfg) # "nil")
            => /\ pc = "init" /\ pc' = "done"
               /\ retErr' = execInitErr(cfg) /\ retStatus' = 0
               /\ UNCHANGED <<exitStatus, anyRead, eof, inRange>>]_vars
    /\ [](retErr \in ConfigErrors =>
            /\ pc = "done" /\ retStatus = 0
            /\ ~anyRead /\ ~loopRead /\ touched = {} /\ endRun = 0
            /\ ~exitBegin /\ ~exitAction /\ ~exitEnd /\ lastExitExpr = <<>>
            /\ exitStatus = 0)

\* C23 witness: an odd-length Environ ended the run of a program that has a
\* BEGIN block, an action and an END block
C23_Witness ==
    /\ retErr = "length of config.Environ must be a multiple of 2"
    /\ pc = "done"
    /\ nBegin = 1 /\ nActions = 1 /\ nEnd = 1

----------------------------------------------------------------------------
(* Claims about the regex cache *)

\* C25: the cache never holds more than 100 regexes; compileRegex inserts
\* only the regex it compiled and only while the cache is not full, never
\* removes or replaces an entry, leaves the cache as it is when the regex is
\* invalid (and returns an error), and returns the regex regexp.Compile gives
\* whether or not it comes from the cache.
C25_RegexCache ==
    /\ [](Cardinality(DOMAIN regexCache) <= maxCachedRegexes)
    /\ [][\A regex \in Regexes :
            compileRegex(regex) =>
              LET c == regexpCompile(regex)
              IN  /\ \A k \in DOMAIN regexCache :
                        k \in DOMAIN regexCache' /\ regexCache'[k] = regexCache[k]
                  /\ regexCache' # regexCache =>
                        /\ Cardinality(DOMAIN regexCache) < maxCachedRegexes
                        /\ DOMAIN regexCache' = DOMAIN regexCache \cup {regex}
                        /\ c.err = ""
                  /\ c.err # "" => regexOp'.err # "" /\ regexCache' = regexCache
                  /\ c.err = "" => regexOp'.err = "" /\ regexOp'.re = c.re]_vars

\* C25 witness: a valid regex that is not cached was compiled while the cache
\* is full
C25_Witness ==
    /\ Cardinality(DOMAIN regexCache) = maxCachedRegexes
    /\ regexOp.regex \notin DOMAIN regexCache
    /\ regexOp.err = "" /\ regexOp.re = <<"regexp", regexOp.regex>>

----------------------------------------------------------------------------
(* Claims about loops *)

\* C21: in for (pre; cond; post), a body that ends with continue, at any
\* depth of if and block statements, is followed by the post-statement, and
\* the post-statement by the condition; a body that ends with break ends the
\* loop with neither the post-statement nor the condition run again.
C21_ForContinue ==
    /\ [][\A body \in Bodies :
            (forBody(body) /\ executes(body) = "continue")
            => /\ stmtAt' = (IF stmt.post THEN "post"
                             ELSE IF stmt.cond THEN "cond" ELSE "body")
               /\ stmtRet' = ""]_vars
    /\ [][\A err \in StepErrs :
            (forPost(err) /\ err = "nil")
            => stmtAt' = (IF stmt.cond THEN "cond" ELSE "body")]_vars
    /\ [][\A body \in Bodies :
            (forBody(body) /\ executes(body) = "break")
            => /\ stmtAt' = "done" /\ stmtRet' = "nil"
               /\ nPost' = nPost /\ nCond' = nCond]_vars
    /\ [][stmtAt = "done" => (nPost' = nPost /\ nCond' = nCond)]_vars

\* C21 witness: the second body of a for loop with condition and
\* post-statement ended with continue, and the post-statement runs next
C21_Witness ==
    /\ stmt = [kind |-> "for", pre |-> TRUE, cond |-> TRUE, post |-> TRUE]
    /\ bodyErr = "continue"
    /\ stmtAt = "post" /\ nBody = 2 /\ nPost = 1 /\ nCond = 2

\* C26: in do ... while (cond), every body that ends with nil or with
\* continue is followed by the evaluation of the condition.
C26_DoWhileContinue ==
    [][\A body \in Bodies :
          (doBody(body) /\ executes(body) \in {"nil", "continue"})
          => stmtAt' = "cond"]_vars

----------------------------------------------------------------------------
(* Claims about increments *)

\* the value a read of $index gives in the state after a step
fieldValueAfter(index) ==
    IF index = 0 THEN (IF lineIsTrueStr' THEN str(line') ELSE numStr(line'))
    ELSE IF fieldsIsTrueStr'[index] THEN str(fields'[index])
    ELSE numStr(fields'[index])

\* C22 as stated: x++ and x-- evaluate to the number of x before the
\* operation, ++x and --x to the number after it, and the target, a
\* variable, an array element or a field, then holds num(old +/- 1).
C22_Incr ==
    [][\A op \in IncrOps :
          /\ incrVar(op) =>
                /\ globalX' = num(incrNum(op, valueNum(globalX)))
                /\ exprOp'.v = (IF op \in {"x++", "x--"} THEN num(valueNum(globalX))
                                ELSE globalX')
          /\ incrArray(1, "x", op) =>
                LET old == IF "x" \in DOMAIN arrays[1] THEN valueNum(arrays[1]["x"]) ELSE 0
                IN  /\ arrays'[1]["x"] = num(incrNum(op, old))
                    /\ exprOp'.v = (IF op \in {"x++", "x--"} THEN num(old)
                                    ELSE arrays'[1]["x"])
          /\ \A i \in IncrFieldIdx :
                incrFieldExpr(i, op) =>
                   LET old == valueNum(fieldValue(ensureFields, i))
                   IN  /\ fieldValueAfter(i) = num(incrNum(op, old))
                       /\ exprOp'.v = (IF op \in {"x++", "x--"} THEN num(old)
                                       ELSE num(incrNum(op, old)))]_vars

\* C22 amended: the same for a variable and an array element; a field then
\* holds the true string of the number old +/- 1 (and $0 is rebuilt), while
\* the expression evaluates to the number.
C22_IncrFieldString ==
    [][\A op \in IncrOps :
          /\ incrVar(op) =>
                /\ globalX' = num(incrNum(op, valueNum(globalX)))
                /\ exprOp'.v = (IF op \in {"x++", "x--"} THEN num(valueNum(globalX))
                                ELSE globalX')
          /\ incrArray(1, "x", op) =>
                LET old == IF "x" \in DOMAIN arrays[1] THEN valueNum(arrays[1]["x"]) ELSE 0
                IN  /\ arrays'[1]["x"] = num(incrNum(op, old))
                    /\ exprOp'.v = (IF op \in {"x++", "x--"} THEN num(old)
                                    ELSE arrays'[1]["x"])
          /\ \A i \in IncrFieldIdx :
                incrFieldExpr(i, op) =>
                   LET old == valueNum(fieldValue(ensureFields, i))
                   IN  /\ fieldValueAfter(i) = str(IntToStr(incrNum(op, old)))
                       /\ valueNum(fieldValueAfter(i)) = incrNum(op, old)
                       /\ exprOp'.v = (IF op \in {"x++", "x--"} THEN num(old)
                                       ELSE num(incrNum(op, old)))]_vars

\* C22 witness: $1-- on the record "1 b" evaluated to 1 and left the string
\* "0" in $1
C22_Witness ==
    /\ exprOp.op = "x--" /\ exprOp.v = num(1)
    /\ haveFields /\ fields = << <<"0">>, <<"b">> >>
    /\ fieldsIsTrueStr = <<TRUE, FALSE>>
    /\ line = <<"0", " ", "b">>

\* C28: in a[e] op= v, a[e]++, $e op= v and $e++ the index e is evaluated
\* once (its side effect, x++, happens once), and the element written is the
\* one that was read: no other key or field changes, and the element holds
\* the result computed from the value read under that index.
C28_IndexOnce ==
    [][\A op \in AugOps, r \in IndexRight :
          /\ augAssignIndexedArray(1, op, r) =>
                LET n == valueNum(globalX)
                    k == indexKey(n)
                    old == IF k \in DOMAIN arrays[1] THEN arrays[1][k] ELSE null
                    res == evalBinary(op, old, r)
                IN  /\ globalX' = num(n + 1)
                    /\ DOMAIN arrays'[1] = DOMAIN arrays[1] \cup {k}
                    /\ \A j \in DOMAIN arrays[1] \ {k} : arrays'[1][j] = arrays[1][j]
                    /\ arrays'[1][k] = (IF res.err = "" THEN res.v ELSE old)
          /\ augAssignIndexedField(op, r) =>
                LET n == valueNum(globalX)
                    e == IF n = 0
                         THEN [fields |-> fields, fieldsIsTrueStr |-> fieldsIsTrueStr,
                               numFields |-> numFields]
                         ELSE ensureFields
                    res == evalBinary(op, fieldValue(e, n), r)
                IN  /\ globalX' = num(n + 1)
                    /\ (res.err = "" /\ n = 0) => line' = toString(res.v)
                    /\ (res.err = "" /\ n >= 1) =>
                          /\ fields'[n] = toString(res.v)
                          /\ Len(fields') = (IF n > Len(e.fields) THEN n
                                             ELSE Len(e.fields))
                          /\ \A j \in 1..Len(e.fields) :
                                j # n => fields'[j] = e.fields[j]
                    /\ res.err # "" =>
                          /\ line' = line
                          /\ fields' = e.fields]_vars

\* C28 witness: with x == 1, a[x++ % 2 ? "y" : "x"] += 1 wrote a["y"] alone
\* and left x == 2
C28_Witness ==
    /\ exprOp.op = "+" /\ exprOp.err = ""
    /\ globalX = num(2)
    /\ DOMAIN arrays[1] = {"y"}
    /\ arrays[1]["y"] = num(1)

====
